---- MODULE Spec2Model ----
(***************************************************************************)
(* Withdrawal ledger of the restaurant back-office:                        *)
(* backend/modules/restaurant/controllers/withdrawalController.js.         *)
(*                                                                         *)
(* Money is counted in tenths of a rupee, and order prices are whole       *)
(* rupees (multiples of 10 units), so that the 10% commission of line 96   *)
(* is exact in integer arithmetic.  Dates are day numbers; day 0 is a      *)
(* Sunday, so Date.getDay() of day d is d % 7.                             *)
(***************************************************************************)
EXTENDS Integers, Sequences, FiniteSets, TLC

VARIABLES
    requests,   \* the WithdrawalRequest collection; a request's _id is its index
    wallets,    \* the RestaurantWallet collection, one document per restaurant
    orders,     \* the Order collection
    now,        \* the day new Date() falls on
    last,       \* the last handler call: its inputs, its response, the locals it computed
    running,    \* the handlers that are between two database steps: their locals
    notificationsPage,  \* the state of the mounted Notifications component
    localStorage,       \* the browser's local storage: the text stored under each key
    couponsPage         \* the state of the mounted Coupons component

\* The server's state and the state of the browser pages.
backend == <<requests, wallets, orders, now, last, running>>
frontend == <<notificationsPage, localStorage, couponsPage>>

vars == <<requests, wallets, orders, now, last, running,
          notificationsPage, localStorage, couponsPage>>

\* No page of the admin or restaurant front end is open.
DISMISSED_KEY == "restaurant_dismissed_notifications"
NoItem == <<>>
Unmounted == [mounted |-> FALSE]
NoPages ==
    /\ notificationsPage = Unmounted
    /\ localStorage = [key \in {DISMISSED_KEY} |-> NoItem]
    /\ couponsPage = Unmounted

----------------------------------------------------------------------------
(* Bounds of the model *)

MaxRequests == 2    \* create is explored while fewer requests than this exist

Restaurants == {"r1", "r2"}
Admins == {"a1"}
AmountValues == {1, 9}
NowDays == {7, 10}

----------------------------------------------------------------------------
(* Absent values *)

NoRestaurant == "none"      \* req.restaurant is missing
NoAdmin == "none"           \* req.admin is missing
NoId == 0                   \* transactionId not set
NoDate == 0                 \* a date field that is not set
NoReason == "unset"         \* rejectionReason undefined
EmptyReason == ""           \* rejectionReason supplied as the empty string

Max(a, b) == IF a >= b THEN a ELSE b

----------------------------------------------------------------------------
(* req.body.amount as JSON delivers it, and the conversions JavaScript      *)
(* applies to it.  A string is described by what the conversions read: the  *)
(* number its longest numeric prefix denotes, and whether anything follows. *)

Undefined == [kind |-> "undefined", val |-> 0]      \* amount missing
Num(n) == [kind |-> "number", val |-> n]            \* a JSON number
NumStr(n) == [kind |-> "numstr", val |-> n]         \* "5": a string that is a number
PrefixStr(n) == [kind |-> "prefixstr", val |-> n]   \* "5abc": a number, then other text
Garbage == [kind |-> "garbage", val |-> 0]          \* "abc": no numeric prefix

AmountInputs ==
    {Undefined, Garbage, PrefixStr(1), PrefixStr(-1)}
        \cup {Num(n) : n \in {-1, 0} \cup AmountValues}

NaN == [nan |-> TRUE, val |-> 0]
Number(n) == [nan |-> FALSE, val |-> n]

\* ToBoolean: undefined, 0 and NaN are falsy; every non-empty string is truthy
Truthy(a) ==
    CASE a.kind = "undefined" -> FALSE
      [] a.kind = "number" -> a.val # 0
      [] OTHER -> TRUE

\* ToNumber, as the comparison amount <= 0 applies it
ToNumber(a) ==
    CASE a.kind = "number" -> Number(a.val)
      [] a.kind = "numstr" -> Number(a.val)
      [] OTHER -> NaN

\* amount <= 0: every comparison with NaN is false
LessOrEqualZero(a) == ~ToNumber(a).nan /\ ToNumber(a).val <= 0

\* parseFloat reads the longest numeric prefix of String(amount)
parseFloat(a) ==
    CASE a.kind \in {"number", "numstr", "prefixstr"} -> Number(a.val)
      [] OTHER -> NaN

----------------------------------------------------------------------------
(* Orders and the weekly cycle *)

Order(r, st, created, delivered, tracked, sub, disc) ==
    [restaurantId |-> r, status |-> st, createdAt |-> created,
     deliveredAt |-> delivered, trackingDeliveredAt |-> tracked,
     pricing |-> [subtotal |-> sub, discount |-> disc]]

\* The orders that exist over the two weeks the model looks at
OrderBook ==
    << Order("r1", "delivered", 6, 6, 6, 10, 0),
       Order("r1", "delivered", 7, 8, 8, 10, 0),        \* ordered on Sunday, delivered on Monday
       Order("r1", "delivered", 9, 9, 9, 10, 20),       \* discount above the subtotal
       Order("r1", "cancelled", 9, NoDate, NoDate, 20, 0),
       Order("r2", "delivered", 9, 9, 9, 10, 0),
       Order("r2", "delivered", 7, NoDate, 10, 20, 10) >>  \* only the tracking timestamp is set

\* An order as the collection holds it on day d: not delivered before its delivery
OrderOn(o, d) ==
    IF o.status = "delivered" /\ Max(o.deliveredAt, o.trackingDeliveredAt) > d
    THEN [o EXCEPT !.status = "preparing", !.deliveredAt = NoDate,
                   !.trackingDeliveredAt = NoDate]
    ELSE o

RECURSIVE OrdersOn(_, _)
OrdersOn(book, d) ==
    IF book = <<>> THEN <<>>
    ELSE IF Head(book).createdAt <= d
         THEN <<OrderOn(Head(book), d)>> \o OrdersOn(Tail(book), d)
         ELSE OrdersOn(Tail(book), d)

getDay(d) == d % 7
daysFromMonday(d) == IF getDay(d) = 0 THEN 6 ELSE getDay(d) - 1
cycleStart(d) == d - daysFromMonday(d)
cycleEnd(d) == cycleStart(d) + 6

\* { $gte: cycleStart, $lte: cycleEnd }: a missing field matches nothing
InCycle(t, d) == t # NoDate /\ cycleStart(d) <= t /\ t <= cycleEnd(d)

\* The filter of Order.find
IsDeliveredInCycle(o, restaurant, d) ==
    /\ o.status = "delivered"
    /\ o.restaurantId = restaurant
    /\ \/ InCycle(o.deliveredAt, d)
       \/ InCycle(o.trackingDeliveredAt, d)
       \/ InCycle(o.createdAt, d)

deliveredOrders(restaurant) ==
    SelectSeq(orders, LAMBDA o : IsDeliveredInCycle(o, restaurant, now))

OrderPayoutBelowZero(o) ==
    LET foodPrice == o.pricing.subtotal - o.pricing.discount
    IN foodPrice - (foodPrice * 10) \div 100

\* One step of the reduce of line 94: the payout of one order
OrderPayout(o) ==
    LET foodPrice == o.pricing.subtotal - o.pricing.discount
        defaultCommission == (foodPrice * 10) \div 100
    IN Max(0, foodPrice - defaultCommission)

RECURSIVE SumPayout(_)
SumPayout(os) == IF os = <<>> THEN 0 ELSE OrderPayout(Head(os)) + SumPayout(Tail(os))

cyclePayout(restaurant) == SumPayout(deliveredOrders(restaurant))

----------------------------------------------------------------------------
(* Requests *)

RequestIds == 1..Len(requests)

existingWithdrawals(restaurant) ==
    SelectSeq(requests, LAMBDA q : q.restaurantId = restaurant
                                   /\ q.status \in {"Pending", "Approved"})

RECURSIVE SumAmount(_)
SumAmount(qs) == IF qs = <<>> THEN 0 ELSE Head(qs).amount + SumAmount(Tail(qs))

totalExistingWithdrawals(restaurant) == SumAmount(existingWithdrawals(restaurant))

financeAvailableBalance(restaurant) ==
    Max(0, cyclePayout(restaurant) - totalExistingWithdrawals(restaurant))

effectiveAvailableBalance(restaurant, walletAvailableBalance) ==
    Max(walletAvailableBalance, financeAvailableBalance(restaurant))

InsufficientBalanceOffByOne(numericAmount, available) == numericAmount > available + 1

\* The test of line 121
InsufficientBalance(numericAmount, available) == numericAmount > available

pendingRequestOfNobody(restaurant) == FALSE

pendingRequestOnceApproved(restaurant) ==
    \E i \in RequestIds : /\ requests[i].restaurantId = restaurant
                          /\ requests[i].status = "Approved"

\* WithdrawalRequest.findOne({restaurantId, status: "Pending"}) finds one
pendingRequest(restaurant) ==
    \E i \in RequestIds : /\ requests[i].restaurantId = restaurant
                          /\ requests[i].status = "Pending"

----------------------------------------------------------------------------
(* Wallets *)

NewWallet == [exists |-> TRUE, totalBalance |-> 0, totalWithdrawn |-> 0,
              transactions |-> <<>>]

findOrCreateByRestaurantId(ws, restaurant) ==
    IF ws[restaurant].exists THEN ws ELSE [ws EXCEPT ![restaurant] = NewWallet]

RECURSIVE CountTransactions(_)
CountTransactions(rs) ==
    IF rs = {} THEN 0
    ELSE LET r == CHOOSE x \in rs : TRUE
         IN Len(wallets[r].transactions) + CountTransactions(rs \ {r})

\* The _id a new subdocument gets: one no stored transaction has
FreshTransactionId == CountTransactions(Restaurants) + 1

\* wallet.addTransaction(data): pushes the transaction; a Completed withdrawal
\* is deducted from the balance (the comment of line 170), not below 0
addTransaction(wallet, data) ==
    LET transaction == [id |-> FreshTransactionId, amount |-> data.amount,
                        type |-> data.type, status |-> data.status,
                        description |-> data.description, processedAt |-> NoDate]
        pushed == [wallet EXCEPT !.transactions = Append(@, transaction)]
    IN IF data.status = "Completed" /\ data.type = "withdrawal"
       THEN [pushed EXCEPT !.totalBalance = Max(0, @ - data.amount)]
       ELSE pushed

TransactionByIdFirst(wallet, id) == IF Len(wallet.transactions) > 0 THEN 1 ELSE 0

\* The index of the transaction with this _id (wallet.transactions.id), or 0
TransactionById(wallet, id) ==
    IF \E k \in 1..Len(wallet.transactions) : wallet.transactions[k].id = id
    THEN CHOOSE k \in 1..Len(wallet.transactions) : wallet.transactions[k].id = id
    ELSE 0

\* The fallback of lines 417 and 548: the first Pending withdrawal transaction
\* whose description holds the request's id, or 0
MatchesDescription(t, requestId) ==
    /\ t.type = "withdrawal"
    /\ t.status = "Pending"
    /\ t.description.requestId = requestId

TransactionByDescription(wallet, requestId) ==
    LET hits == {k \in 1..Len(wallet.transactions) :
                    MatchesDescription(wallet.transactions[k], requestId)}
    IN IF hits = {} THEN 0 ELSE CHOOSE k \in hits : \A j \in hits : k <= j

----------------------------------------------------------------------------
(* The record of a handler call: who called it, the inputs the handler read *)
(* before it answered, the status code of its response, the locals it       *)
(* computed on the way, and what became of its e-mail step.                 *)

\* The call is not a listing
NoListing == [status |-> "", search |-> <<>>, page |-> 0, limit |-> 0,
              requests |-> <<>>, total |-> 0, pages |-> 0]

\* The handler answered before its e-mail step
NoEmail == "none"

\* The e-mail step of lines 186-205, 445-471 and 591-617: there is no address
\* to send to (or only the dummy one) and nothing is sent; the send is started
\* and succeeds; the send is started and its promise rejects; the step throws
\* (the import, or the call itself)
EmailOutcomes == {"skipped", "sent", "failed", "threw"}

EmailUncaught(mail, code) == IF mail = "threw" THEN 500 ELSE code

\* The status code the handler answers with after the e-mail step, code being
\* the one of the success response that follows the step
EmailStep(mail, code) ==
    CASE mail = "skipped" -> code
      [] mail = "sent" -> code
      [] mail = "failed" -> code   \* the .catch of lines 198, 464 and 610 logs it
      [] mail = "threw" -> code    \* the catch of lines 203, 469 and 615 logs it

Call(op, who, id, input, reason) ==
    [op |-> op, who |-> who, id |-> id, input |-> input, reason |-> reason,
     code |-> 0, amount |-> 0, balance |-> 0, available |-> 0, branch |-> "none",
     mail |-> NoEmail, listing |-> NoListing]

NoCall == Call("none", "none", NoId, Undefined, NoReason)

Respond(call, code) == [call EXCEPT !.code = code]

\* Line 32: !restaurant || !restaurant._id
RestaurantMissing(restaurant) == restaurant = NoRestaurant

AdminNeverMissing(admin) == FALSE

\* Lines 374 and 502: !admin || !admin._id
AdminMissing(admin) == admin = NoAdmin

----------------------------------------------------------------------------
(* createWithdrawalRequest, lines 27-225.  fault names the persistence step *)
(* that throws: "none", "create" (line 149), "walletSave" (line 176) or     *)
(* "requestSave" (line 180); the catch of line 221 answers 500.  mail is    *)
(* what becomes of the e-mail step, NoEmail when the handler does not get   *)
(* to it.                                                                   *)

\* What the e-mail step can come to where no address is configured
NoAddress == {NoEmail, "skipped"}

DeductedBelowZero(totalBalance, numericAmount) == totalBalance - numericAmount

\* Lines 171-174
DeductedBalance(totalBalance, numericAmount) == Max(0, totalBalance - numericAmount)

WithdrawnOverwritten(totalWithdrawn, numericAmount) == numericAmount

\* Line 175
IncreasedWithdrawn(totalWithdrawn, numericAmount) == totalWithdrawn + numericAmount

RequestLeftUnlinked(withdrawalRequest, transaction) == withdrawalRequest

RequestLinkedToFirst(withdrawalRequest, transaction) ==
    [withdrawalRequest EXCEPT !.transactionId = NoId + 1]

\* Line 179
LinkedRequest(withdrawalRequest, transaction) ==
    [withdrawalRequest EXCEPT !.transactionId = transaction.id]

\* Lines 149-158
NewRequest(restaurant, numericAmount) ==
    [restaurantId |-> restaurant, amount |-> numericAmount, status |-> "Pending",
     processedAt |-> NoDate, processedBy |-> NoAdmin, rejectionReason |-> NoReason,
     transactionId |-> NoId]

\* Lines 148-220: the request passed every check
CreateAccepted(call, restaurant, numericAmount, found, fault, mail) ==
    LET wallet == found[restaurant]
        withdrawalRequest == NewRequest(restaurant, numericAmount)
        withdrawalRequestId == Len(requests) + 1
        added == addTransaction(wallet,
                     [amount |-> numericAmount, type |-> "withdrawal",
                      status |-> "Pending",
                      description |-> [kind |-> "created",
                                       requestId |-> withdrawalRequestId]])
        transaction == added.transactions[Len(added.transactions)]
        saved == [added EXCEPT
                     !.totalBalance = DeductedBalance(added.totalBalance, numericAmount),
                     !.totalWithdrawn = IncreasedWithdrawn(added.totalWithdrawn,
                                                           numericAmount)]
        linked == LinkedRequest(withdrawalRequest, transaction)
        answer == [call EXCEPT !.id = withdrawalRequestId]
    IN CASE fault = "create" ->
              /\ mail = NoEmail
              /\ requests' = requests
              /\ wallets' = found
              /\ last' = Respond(call, 500)
         [] fault = "walletSave" ->
              /\ mail = NoEmail
              /\ Len(requests) < MaxRequests
              /\ requests' = Append(requests, withdrawalRequest)
              /\ wallets' = found
              /\ last' = Respond(answer, 500)
         [] fault = "requestSave" ->
              /\ mail = NoEmail
              /\ Len(requests) < MaxRequests
              /\ requests' = Append(requests, withdrawalRequest)
              /\ wallets' = [found EXCEPT ![restaurant] = saved]
              /\ last' = Respond(answer, 500)
         [] OTHER ->
              /\ mail \in EmailOutcomes
              /\ Len(requests) < MaxRequests
              /\ requests' = Append(requests, linked)
              /\ wallets' = [found EXCEPT ![restaurant] = saved]
              /\ last' = Respond([answer EXCEPT !.mail = mail], EmailStep(mail, 201))

\* Lines 40-141: the checks that need the wallet
CreateChecked(call, restaurant, amount, fault, mail) ==
    LET found == findOrCreateByRestaurantId(wallets, restaurant)
        wallet == found[restaurant]
        numericAmount == parseFloat(amount)
        walletAvailableBalance == wallet.totalBalance
        available == effectiveAvailableBalance(restaurant, walletAvailableBalance)
        seen == [call EXCEPT !.amount = numericAmount.val,
                             !.balance = walletAvailableBalance,
                             !.available = available]
    IN IF numericAmount.nan \/ numericAmount.val <= 0
       THEN /\ fault = "none" /\ mail = NoEmail
            /\ wallets' = found
            /\ requests' = requests
            /\ last' = Respond(call, 400)
       ELSE IF InsufficientBalance(numericAmount.val, available)
       THEN /\ fault = "none" /\ mail = NoEmail
            /\ wallets' = found
            /\ requests' = requests
            /\ last' = Respond([seen EXCEPT !.branch = "insufficient"], 400)
       ELSE IF pendingRequest(restaurant)
       THEN /\ fault = "none" /\ mail = NoEmail
            /\ wallets' = found
            /\ requests' = requests
            /\ last' = Respond([seen EXCEPT !.branch = "pending"], 400)
       ELSE CreateAccepted(seen, restaurant, numericAmount.val, found, fault, mail)

Create(restaurant, amount, fault, mail) ==
    LET call == Call("create", restaurant, NoId, amount, NoReason)
    IN /\ UNCHANGED <<orders, now, frontend, running>>
       /\ IF RestaurantMissing(restaurant)
          THEN /\ fault = "none" /\ mail = NoEmail
               /\ last' = Respond(Call("create", restaurant, NoId, Undefined, NoReason), 401)
               /\ UNCHANGED <<requests, wallets>>
          ELSE IF ~Truthy(amount) \/ LessOrEqualZero(amount)
          THEN /\ fault = "none" /\ mail = NoEmail
               /\ last' = Respond(call, 400)
               /\ UNCHANGED <<requests, wallets>>
          ELSE CreateChecked(call, restaurant, amount, fault, mail)

createWithdrawalRequest ==
    \E restaurant \in Restaurants \cup {NoRestaurant}, amount \in AmountInputs,
       mail \in NoAddress :
        Create(restaurant, amount, "none", mail)

CreateFaults == {"create", "walletSave", "requestSave"}

----------------------------------------------------------------------------
(* approveWithdrawalRequest (lines 369-490) and rejectWithdrawalRequest     *)
(* (lines 496-637)                                                          *)

\* Lines 406-423 and 537-554: the index of the request's transaction in the
\* wallet, by transactionId first, by description next; 0 when neither finds it
LinkedTransaction(wallet, request) ==
    IF request.transactionId # NoId
    THEN TransactionById(wallet, request.transactionId)
    ELSE 0

pendingTransaction(wallet, request, id) ==
    IF LinkedTransaction(wallet, request) # 0
    THEN LinkedTransaction(wallet, request)
    ELSE TransactionByDescription(wallet, id)

LookupBranch(wallet, request, id) ==
    IF LinkedTransaction(wallet, request) # 0 THEN "linked"
    ELSE IF TransactionByDescription(wallet, id) # 0 THEN "matched"
    ELSE "added"

IsNotRejected(request) == request.status # "Rejected"

\* The test of lines 385 and 513
IsPending(request) == request.status = "Pending"

ApprovedRequestUnstamped(request, admin) == [request EXCEPT !.status = "Approved"]

ApprovedRequestAmountCleared(request, admin) ==
    [request EXCEPT !.status = "Approved", !.processedAt = now, !.processedBy = admin,
                    !.amount = 0]

\* Lines 398-401
ApprovedRequest(request, admin) ==
    [request EXCEPT !.status = "Approved", !.processedAt = now, !.processedBy = admin]

ApprovedWalletUnmarked(wallet, request, id) == wallet

\* Lines 425-439
ApprovedWallet(wallet, request, id) ==
    LET k == pendingTransaction(wallet, request, id)
    IN IF k # 0
       THEN [wallet EXCEPT !.transactions[k].status = "Completed",
                           !.transactions[k].processedAt = now]
       ELSE addTransaction(wallet,
                [amount |-> request.amount, type |-> "withdrawal",
                 status |-> "Completed",
                 description |-> [kind |-> "approved", requestId |-> id]])

Approve(admin, id, mail) ==
    LET call == Call("approve", admin, id, Undefined, NoReason)
    IN /\ UNCHANGED <<orders, now, frontend, running>>
       /\ IF AdminMissing(admin)
          THEN /\ mail = NoEmail
               /\ last' = Respond(Call("approve", admin, NoId, Undefined, NoReason), 401)
               /\ UNCHANGED <<requests, wallets>>
          ELSE IF id \notin RequestIds
          THEN /\ mail = NoEmail
               /\ last' = Respond(call, 404)
               /\ UNCHANGED <<requests, wallets>>
          ELSE IF ~IsPending(requests[id])
          THEN /\ mail = NoEmail
               /\ last' = Respond(call, 400)
               /\ UNCHANGED <<requests, wallets>>
          ELSE LET request == requests[id]
                   restaurant == request.restaurantId
                   found == findOrCreateByRestaurantId(wallets, restaurant)
                   wallet == found[restaurant]
               IN /\ mail \in EmailOutcomes
                  /\ requests' = [requests EXCEPT ![id] = ApprovedRequest(request, admin)]
                  /\ wallets' = [found EXCEPT
                                    ![restaurant] = ApprovedWallet(wallet, request, id)]
                  /\ last' = Respond([call EXCEPT
                                         !.amount = request.amount,
                                         !.balance = wallet.totalBalance,
                                         !.branch = LookupBranch(wallet, request, id),
                                         !.mail = mail],
                                     EmailStep(mail, 200))

\* Lines 527-532: a falsy reason (missing, or the empty string) is not stored
RejectedRequest(request, admin, rejectionReason) ==
    [request EXCEPT !.status = "Rejected", !.processedAt = now, !.processedBy = admin,
                    !.rejectionReason = IF rejectionReason \in {NoReason, EmptyReason}
                                        THEN @ ELSE rejectionReason]

RefundForgotten(totalBalance, amount) == totalBalance

\* Lines 562-563 and 577-578
RefundedBalance(totalBalance, amount) == totalBalance + amount

WithdrawnNotLowered(totalWithdrawn, amount) == totalWithdrawn

\* Lines 564-567 and 579-582
RefundedWithdrawn(totalWithdrawn, amount) == Max(0, totalWithdrawn - amount)

\* Lines 556-583
RejectedWallet(wallet, request, id) ==
    LET k == pendingTransaction(wallet, request, id)
        marked ==
            IF k # 0
            THEN [wallet EXCEPT !.transactions[k].status = "Cancelled",
                                !.transactions[k].processedAt = now]
            ELSE addTransaction(wallet,
                     [amount |-> request.amount, type |-> "refund",
                      status |-> "Completed",
                      description |-> [kind |-> "rejected", requestId |-> id]])
    IN [marked EXCEPT
           !.totalBalance = RefundedBalance(marked.totalBalance, request.amount),
           !.totalWithdrawn = RefundedWithdrawn(marked.totalWithdrawn, request.amount)]

Reject(admin, id, rejectionReason, mail) ==
    LET call == Call("reject", admin, id, Undefined, rejectionReason)
        unread == Call("reject", admin, id, Undefined, NoReason)
    IN /\ UNCHANGED <<orders, now, frontend, running>>
       /\ IF AdminMissing(admin)
          THEN /\ mail = NoEmail
               /\ last' = Respond(Call("reject", admin, NoId, Undefined, NoReason), 401)
               /\ UNCHANGED <<requests, wallets>>
          ELSE IF id \notin RequestIds
          THEN /\ mail = NoEmail
               /\ last' = Respond(unread, 404)
               /\ UNCHANGED <<requests, wallets>>
          ELSE IF ~IsPending(requests[id])
          THEN /\ mail = NoEmail
               /\ last' = Respond(unread, 400)
               /\ UNCHANGED <<requests, wallets>>
          ELSE LET request == requests[id]
                   restaurant == request.restaurantId
                   found == findOrCreateByRestaurantId(wallets, restaurant)
                   wallet == found[restaurant]
               IN /\ mail \in EmailOutcomes
                  /\ requests' = [requests EXCEPT
                                     ![id] = RejectedRequest(request, admin, rejectionReason)]
                  /\ wallets' = [found EXCEPT
                                    ![restaurant] = RejectedWallet(wallet, request, id)]
                  /\ last' = Respond([call EXCEPT
                                         !.amount = request.amount,
                                         !.balance = wallet.totalBalance,
                                         !.branch = LookupBranch(wallet, request, id),
                                         !.mail = mail],
                                     EmailStep(mail, 200))

\* approveWithdrawalRequest and rejectWithdrawalRequest of a Pending request
\* where a persistence step throws: fault is "requestSave" (lines 402 and 533)
\* or "walletSave" (lines 441 and 585).  What was saved before stays saved,
\* and the catch of lines 486 and 633 answers 500
ProcessFaults == {"requestSave", "walletSave"}

ProcessFailed(call, id, processed, fault) ==
    LET request == requests[id]
        restaurant == request.restaurantId
        found == findOrCreateByRestaurantId(wallets, restaurant)
        wallet == found[restaurant]
    IN /\ ~AdminMissing(call.who)
       /\ id \in RequestIds
       /\ IsPending(request)
       /\ fault \in ProcessFaults
       /\ requests' = IF fault = "walletSave"
                      THEN [requests EXCEPT ![id] = processed] ELSE requests
       /\ wallets' = found
       /\ last' = Respond([call EXCEPT !.amount = request.amount,
                                       !.balance = wallet.totalBalance,
                                       !.branch = LookupBranch(wallet, request, id)],
                          500)
       /\ UNCHANGED <<orders, now, frontend, running>>

ApproveFailed(admin, id, fault) ==
    ProcessFailed(Call("approve", admin, id, Undefined, NoReason), id,
                  ApprovedRequest(requests[id], admin), fault)

RejectFailed(admin, id, rejectionReason, fault) ==
    ProcessFailed(Call("reject", admin, id, Undefined, rejectionReason), id,
                  RejectedRequest(requests[id], admin, rejectionReason), fault)

\* An id of every request there can be, and one that no request has
IdInputs == 1..(MaxRequests + 1)

ReasonInputs == {NoReason, EmptyReason, "closed"}

approveWithdrawalRequest ==
    \E admin \in Admins \cup {NoAdmin}, id \in IdInputs, mail \in NoAddress :
        Approve(admin, id, mail)

rejectWithdrawalRequest ==
    \E admin \in Admins \cup {NoAdmin}, id \in IdInputs,
       rejectionReason \in ReasonInputs, mail \in NoAddress :
        Reject(admin, id, rejectionReason, mail)

----------------------------------------------------------------------------
(* The listings: getRestaurantWithdrawalRequests (lines 231-287) and        *)
(* getAllWithdrawalRequests (lines 293-363).  A text that is searched, or   *)
(* searched for, is a sequence of characters.                               *)

NoStatus == "unset"     \* req.query.status is missing
NoSearch == <<>>        \* req.query.search is missing or empty: if (search) skips it

\* The statuses of lines 243 and 299
FilterStatuses == {"Pending", "Approved", "Rejected", "Processed"}

StatusInputs == FilterStatuses \cup {NoStatus, "", "pending"}

FiltersWhateverIsGiven(status) == status \notin {NoStatus, ""}

\* Lines 241-247 and 297-303: status && [...].includes(status)
HasStatusFilter(status) == status \notin {NoStatus, ""} /\ status \in FilterStatuses

\* The name and the restaurantId of the Restaurant documents, which lines
\* 152-156 copy into a request as restaurantName and restaurantIdString
RestaurantDetails(restaurant) ==
    IF restaurant = "r1"
    THEN [name |-> <<"S", "p">>, restaurantId |-> <<"R", "1">>]
    ELSE [name |-> <<"B", "i">>, restaurantId |-> <<"R", "2">>]

SearchInputs == {NoSearch, <<"r">>, <<"s", "P">>}

\* $options: "i"
LowerCase(c) ==
    CASE c = "S" -> "s"
      [] c = "P" -> "p"
      [] c = "B" -> "b"
      [] c = "R" -> "r"
      [] OTHER -> c

\* { $regex: search, $options: "i" } for a search text without special
\* characters: the text occurs in the field, whatever the case
RegexMatches(field, search) ==
    \E k \in 0..(Len(field) - Len(search)) :
        \A j \in 1..Len(search) : LowerCase(field[k + j]) = LowerCase(search[j])

\* Lines 306-311
MatchesSearch(request, search) ==
    \/ search = NoSearch
    \/ RegexMatches(RestaurantDetails(request.restaurantId).name, search)
    \/ RegexMatches(RestaurantDetails(request.restaurantId).restaurantId, search)

MatchesStatus(request, status) == HasStatusFilter(status) => request.status = status

\* page and limit as the query string delivers them; when missing, the
\* defaults of lines 235 and 295 stand in
PagingInputs ==
    {[page |-> Undefined, limit |-> Undefined], [page |-> NumStr(2), limit |-> NumStr(1)]}

Default(a, n) == IF a.kind = "undefined" THEN Num(n) ELSE a

\* parseInt reads the longest integer prefix of String(a)
parseInt(a) ==
    CASE a.kind \in {"number", "numstr", "prefixstr"} -> Number(a.val)
      [] OTHER -> NaN

\* .sort({ createdAt: -1 }): the newest request, the one with the highest
\* index, first
RECURSIVE Sorted(_)
Sorted(ids) ==
    IF ids = {} THEN <<>>
    ELSE LET newest == CHOOSE i \in ids : \A j \in ids : j <= i
         IN <<newest>> \o Sorted(ids \ {newest})

\* .skip(skip).limit(limit), for skip >= 0 and limit >= 1
SkipLimit(found, skip, limit) ==
    SubSeq(found, skip + 1, IF skip + limit < Len(found) THEN skip + limit ELSE Len(found))

PagesRoundedDown(total, limit) == total \div limit

\* Math.ceil(total / limit), for limit >= 1
Pages(total, limit) == (total + limit - 1) \div limit

\* Lines 249-279 and 313-358: the answer to a query that ids match
Listed(call, ids, status, search, page, limit) ==
    LET p == parseInt(Default(page, 1)).val
        l == parseInt(Default(limit, 20)).val
        skip == (p - 1) * l
    IN Respond([call EXCEPT
                   !.listing = [status |-> status, search |-> search,
                                page |-> p, limit |-> l,
                                requests |-> SkipLimit(Sorted(ids), skip, l),
                                total |-> Cardinality(ids),
                                pages |-> Pages(Cardinality(ids), l)]],
               200)

ListOwnUnscoped(restaurant, status, page, limit) ==
    LET call == Call("listOwn", restaurant, NoId, Undefined, NoReason)
        query == {i \in RequestIds : MatchesStatus(requests[i], status)}
    IN /\ UNCHANGED <<requests, wallets, orders, now, frontend, running>>
       /\ IF RestaurantMissing(restaurant)
          THEN last' = Respond(call, 401)
          ELSE last' = Listed(call, query, status, NoSearch, page, limit)

ListOwn(restaurant, status, page, limit) ==
    LET call == Call("listOwn", restaurant, NoId, Undefined, NoReason)
        query == {i \in RequestIds : /\ requests[i].restaurantId = restaurant
                                     /\ MatchesStatus(requests[i], status)}
    IN /\ UNCHANGED <<requests, wallets, orders, now, frontend, running>>
       /\ IF RestaurantMissing(restaurant)
          THEN last' = Respond(call, 401)
          ELSE last' = Listed(call, query, status, NoSearch, page, limit)

\* The handler does not look at req.admin
ListAll(status, search, page, limit) ==
    LET call == Call("listAll", NoAdmin, NoId, Undefined, NoReason)
        query == {i \in RequestIds : /\ MatchesStatus(requests[i], status)
                                     /\ MatchesSearch(requests[i], search)}
    IN /\ UNCHANGED <<requests, wallets, orders, now, frontend, running>>
       /\ last' = Listed(call, query, status, search, page, limit)

getRestaurantWithdrawalRequests ==
    \E restaurant \in Restaurants \cup {NoRestaurant}, status \in StatusInputs,
       paging \in PagingInputs :
        ListOwn(restaurant, status, paging.page, paging.limit)

getAllWithdrawalRequests ==
    \E status \in StatusInputs, search \in SearchInputs, paging \in PagingInputs :
        ListAll(status, search, paging.page, paging.limit)

----------------------------------------------------------------------------
(* Handlers that run at the same time.  Each await of a handler is a step:  *)
(* between two steps of one handler the other may take steps.  A handler    *)
(* keeps the documents it loaded in its locals; save() writes the paths the *)
(* handler changed in its copy over the stored document, with no check of   *)
(* what was stored since the copy was loaded.                               *)

Processes == {"p1", "p2"}

NoWallet == [exists |-> FALSE, totalBalance |-> 0, totalWithdrawn |-> 0,
             transactions |-> <<>>]

\* The locals of a handler: the call, the wallet and the request as loaded,
\* and the status code once it has answered
Idle ==
    [pc |-> "idle", op |-> "none", who |-> "none", id |-> NoId, amount |-> 0,
     wallet |-> NoWallet, request |-> NewRequest(NoRestaurant, 0),
     transactionId |-> NoId, code |-> 0]

Goto(p, locals) == running' = [running EXCEPT ![p] = locals]

Answer(locals, code) == [locals EXCEPT !.pc = "done", !.code = code]

\* wallet.save() of lines 176, 441 and 585: loaded is the copy the handler got,
\* modified the copy it saves.  The balances it changed are set to its values,
\* the transactions it changed are set at their positions and the ones it
\* pushed are appended
SavedWallet(stored, loaded, modified) ==
    LET pushed == Len(modified.transactions) - Len(loaded.transactions)
        kept == Len(stored.transactions)
    IN [stored EXCEPT
           !.totalBalance = IF modified.totalBalance # loaded.totalBalance
                            THEN modified.totalBalance ELSE @,
           !.totalWithdrawn = IF modified.totalWithdrawn # loaded.totalWithdrawn
                              THEN modified.totalWithdrawn ELSE @,
           !.transactions =
               [k \in 1..(kept + pushed) |->
                   IF k > kept
                   THEN modified.transactions[k - kept + Len(loaded.transactions)]
                   ELSE IF /\ k <= Len(loaded.transactions)
                           /\ modified.transactions[k] # loaded.transactions[k]
                        THEN modified.transactions[k]
                        ELSE stored.transactions[k]]]

\* Lines 29-43 of createWithdrawalRequest, for a valid amount: the wallet is loaded
CreateFindWallet(p, restaurant, amount) ==
    LET found == findOrCreateByRestaurantId(wallets, restaurant)
    IN /\ running[p].pc = "idle"
       /\ ~RestaurantMissing(restaurant)
       /\ Truthy(amount) /\ ~LessOrEqualZero(amount)
       /\ ~parseFloat(amount).nan /\ parseFloat(amount).val > 0
       /\ wallets' = found
       /\ Goto(p, [Idle EXCEPT !.pc = "wallet", !.op = "create", !.who = restaurant,
                                !.amount = parseFloat(amount).val,
                                !.wallet = found[restaurant]])
       /\ UNCHANGED <<requests, orders, now, frontend, last>>

\* Lines 49-127: the orders and the open requests are read, and the amount is
\* compared with the available balance
CreateFindExisting(p) ==
    LET my == running[p]
        available == effectiveAvailableBalance(my.who, my.wallet.totalBalance)
    IN /\ my.pc = "wallet" /\ my.op = "create"
       /\ Goto(p, IF InsufficientBalance(my.amount, available)
                  THEN Answer(my, 400) ELSE [my EXCEPT !.pc = "funded"])
       /\ UNCHANGED <<requests, wallets, orders, now, frontend, last>>

\* Lines 129-146: the Pending request is looked for
CreateFindPending(p) ==
    LET my == running[p]
    IN /\ my.pc = "funded"
       /\ Goto(p, IF pendingRequest(my.who)
                  THEN Answer(my, 400) ELSE [my EXCEPT !.pc = "clear"])
       /\ UNCHANGED <<requests, wallets, orders, now, frontend, last>>

\* Lines 148-158: the request is inserted
CreateInsert(p) ==
    LET my == running[p]
    IN /\ my.pc = "clear"
       /\ Len(requests) < MaxRequests
       /\ requests' = Append(requests, NewRequest(my.who, my.amount))
       /\ Goto(p, [my EXCEPT !.pc = "inserted", !.id = Len(requests) + 1])
       /\ UNCHANGED <<wallets, orders, now, frontend, last>>

\* The copy of the wallet that lines 162-175 make of the loaded one
CreateModified(my) ==
    LET added == addTransaction(my.wallet,
                     [amount |-> my.amount, type |-> "withdrawal", status |-> "Pending",
                      description |-> [kind |-> "created", requestId |-> my.id]])
    IN [added EXCEPT
           !.totalBalance = DeductedBalance(added.totalBalance, my.amount),
           !.totalWithdrawn = IncreasedWithdrawn(added.totalWithdrawn, my.amount)]

CreateSaveWalletReloaded(p) ==
    LET my == running[p]
        modified == CreateModified([my EXCEPT !.wallet = wallets[my.who]])
    IN /\ my.pc = "inserted"
       /\ wallets' = [wallets EXCEPT ![my.who] = modified]
       /\ Goto(p, [my EXCEPT
                      !.pc = "saved",
                      !.transactionId =
                          modified.transactions[Len(modified.transactions)].id])
       /\ UNCHANGED <<requests, orders, now, frontend, last>>

\* Lines 160-176: the wallet is saved
CreateSaveWallet(p) ==
    LET my == running[p]
        modified == CreateModified(my)
    IN /\ my.pc = "inserted"
       /\ wallets' = [wallets EXCEPT
                         ![my.who] = SavedWallet(@, my.wallet, modified)]
       /\ Goto(p, [my EXCEPT
                      !.pc = "saved",
                      !.transactionId =
                          modified.transactions[Len(modified.transactions)].id])
       /\ UNCHANGED <<requests, orders, now, frontend, last>>

\* Lines 178-220: the request is saved with its transactionId, and the handler
\* answers
CreateSaveRequest(p) ==
    LET my == running[p]
    IN /\ my.pc = "saved" /\ my.op = "create"
       /\ requests' = [requests EXCEPT
                          ![my.id] = LinkedRequest(@, [id |-> my.transactionId])]
       /\ Goto(p, Answer(my, 201))
       /\ UNCHANGED <<wallets, orders, now, frontend, last>>

\* Lines 498-518 of rejectWithdrawalRequest: the request is loaded
RejectFindRequest(p, admin, id) ==
    LET my == [Idle EXCEPT !.op = "reject", !.who = admin, !.id = id]
    IN /\ running[p].pc = "idle"
       /\ ~AdminMissing(admin)
       /\ Goto(p, IF id \notin RequestIds THEN Answer(my, 404)
                  ELSE IF ~IsPending(requests[id]) THEN Answer(my, 400)
                  ELSE [my EXCEPT !.pc = "request", !.request = requests[id],
                                  !.amount = requests[id].amount])
       /\ UNCHANGED <<requests, wallets, orders, now, frontend, last>>

\* Lines 520-523: the wallet is loaded
RejectFindWallet(p) ==
    LET my == running[p]
        found == findOrCreateByRestaurantId(wallets, my.request.restaurantId)
    IN /\ my.pc = "request" /\ my.op = "reject"
       /\ wallets' = found
       /\ Goto(p, [my EXCEPT !.pc = "wallet", !.wallet = found[my.request.restaurantId]])
       /\ UNCHANGED <<requests, orders, now, frontend, last>>

\* Lines 525-533: the request is saved as Rejected
RejectSaveRequest(p) ==
    LET my == running[p]
    IN /\ my.pc = "wallet" /\ my.op = "reject"
       /\ requests' = [requests EXCEPT ![my.id] = RejectedRequest(@, my.who, NoReason)]
       /\ Goto(p, [my EXCEPT !.pc = "saved"])
       /\ UNCHANGED <<wallets, orders, now, frontend, last>>

\* Lines 535-632: the wallet is saved with the refund, and the handler answers
RejectSaveWallet(p) ==
    LET my == running[p]
        modified == RejectedWallet(my.wallet, my.request, my.id)
    IN /\ my.pc = "saved" /\ my.op = "reject"
       /\ wallets' = [wallets EXCEPT
                         ![my.request.restaurantId] = SavedWallet(@, my.wallet, modified)]
       /\ Goto(p, Answer(my, 200))
       /\ UNCHANGED <<requests, orders, now, frontend, last>>

\* Lines 371-391 of approveWithdrawalRequest: the request is loaded
ApproveFindRequest(p, admin, id) ==
    LET my == [Idle EXCEPT !.op = "approve", !.who = admin, !.id = id]
    IN /\ running[p].pc = "idle"
       /\ ~AdminMissing(admin)
       /\ Goto(p, IF id \notin RequestIds THEN Answer(my, 404)
                  ELSE IF ~IsPending(requests[id]) THEN Answer(my, 400)
                  ELSE [my EXCEPT !.pc = "request", !.request = requests[id],
                                  !.amount = requests[id].amount])
       /\ UNCHANGED <<requests, wallets, orders, now, frontend, last>>

\* Lines 393-396: the wallet is loaded
ApproveFindWallet(p) ==
    LET my == running[p]
        found == findOrCreateByRestaurantId(wallets, my.request.restaurantId)
    IN /\ my.pc = "request" /\ my.op = "approve"
       /\ wallets' = found
       /\ Goto(p, [my EXCEPT !.pc = "wallet", !.wallet = found[my.request.restaurantId]])
       /\ UNCHANGED <<requests, orders, now, frontend, last>>

\* Lines 398-402: the request is saved as Approved
ApproveSaveRequest(p) ==
    LET my == running[p]
    IN /\ my.pc = "wallet" /\ my.op = "approve"
       /\ requests' = [requests EXCEPT ![my.id] = ApprovedRequest(@, my.who)]
       /\ Goto(p, [my EXCEPT !.pc = "saved"])
       /\ UNCHANGED <<wallets, orders, now, frontend, last>>

\* Lines 404-486: the wallet is saved with the transaction Completed, and the
\* handler answers
ApproveSaveWallet(p) ==
    LET my == running[p]
        modified == ApprovedWallet(my.wallet, my.request, my.id)
    IN /\ my.pc = "saved" /\ my.op = "approve"
       /\ wallets' = [wallets EXCEPT
                         ![my.request.restaurantId] = SavedWallet(@, my.wallet, modified)]
       /\ Goto(p, Answer(my, 200))
       /\ UNCHANGED <<requests, orders, now, frontend, last>>

----------------------------------------------------------------------------
(* Specifications *)

\* A restaurant starts without a wallet document, or with one that holds a balance
InitialBalances == {1}

InitialWallets ==
    {[exists |-> FALSE, totalBalance |-> 0, totalWithdrawn |-> 0, transactions |-> <<>>]}
        \cup {[exists |-> TRUE, totalBalance |-> b, totalWithdrawn |-> 0,
                transactions |-> <<>>] : b \in InitialBalances}

Init ==
    /\ requests = <<>>
    /\ wallets \in [Restaurants -> InitialWallets]
    /\ now \in NowDays
    /\ orders = OrdersOn(OrderBook, now)
    /\ last = NoCall
    /\ running = [p \in Processes |-> Idle]
    /\ NoPages

\* Handlers run one at a time, every persistence step succeeds, and there is no
\* address for the e-mail step to send to
Next ==
    \/ createWithdrawalRequest
    \/ approveWithdrawalRequest
    \/ rejectWithdrawalRequest

Spec == Init /\ [][Next]_vars

\* The handlers called with valid inputs for one restaurant, where a persistence
\* step of createWithdrawalRequest may throw
FaultRestaurants == {"r1"}

createWithdrawalRequestFailing ==
    \E restaurant \in FaultRestaurants, amount \in {Num(n) : n \in AmountValues},
       fault \in CreateFaults \cup {"none"}, mail \in NoAddress :
        Create(restaurant, amount, fault, mail)

approveAfterFailure ==
    \E admin \in Admins, id \in IdInputs, mail \in NoAddress : Approve(admin, id, mail)

rejectAfterFailure ==
    \E admin \in Admins, id \in IdInputs, mail \in NoAddress :
        Reject(admin, id, NoReason, mail)

NextFail ==
    \/ createWithdrawalRequestFailing
    \/ approveAfterFailure
    \/ rejectAfterFailure

SpecFail == Init /\ [][NextFail]_vars

\* The handlers called with valid inputs, one at a time, where every
\* persistence step succeeds: the ledger of each restaurant
createWithdrawalRequestValid ==
    \E restaurant \in Restaurants, amount \in {Num(n) : n \in AmountValues},
       mail \in NoAddress :
        Create(restaurant, amount, "none", mail)

NextLedger ==
    \/ createWithdrawalRequestValid
    \/ approveAfterFailure
    \/ rejectAfterFailure

SpecLedger == Init /\ [][NextLedger]_vars

\* The handlers called as for createWithdrawalRequestFailing, where a
\* persistence step of approveWithdrawalRequest and of rejectWithdrawalRequest
\* may throw as well
approveFailing ==
    \E admin \in Admins, id \in IdInputs, fault \in ProcessFaults :
        ApproveFailed(admin, id, fault)

rejectFailing ==
    \E admin \in Admins, id \in IdInputs, fault \in ProcessFaults :
        RejectFailed(admin, id, NoReason, fault)

NextFault ==
    \/ createWithdrawalRequestFailing
    \/ approveAfterFailure
    \/ rejectAfterFailure
    \/ approveFailing
    \/ rejectFailing

SpecFault == Init /\ [][NextFault]_vars

\* The handlers called with valid inputs for one restaurant, by either of two
\* admins, where the e-mail step has an address to send to and may come to any
\* of its outcomes
MailAdmins == Admins \cup {"a2"}

createWithdrawalRequestMailing ==
    \E restaurant \in FaultRestaurants, amount \in {Num(n) : n \in AmountValues},
       mail \in EmailOutcomes \cup {NoEmail} :
        Create(restaurant, amount, "none", mail)

approveMailing ==
    \E admin \in MailAdmins, id \in IdInputs, mail \in EmailOutcomes \cup {NoEmail} :
        Approve(admin, id, mail)

rejectMailing ==
    \E admin \in MailAdmins, id \in IdInputs, rejectionReason \in {NoReason, "closed"},
       mail \in EmailOutcomes \cup {NoEmail} :
        Reject(admin, id, rejectionReason, mail)

NextMail ==
    \/ createWithdrawalRequestMailing
    \/ approveMailing
    \/ rejectMailing

SpecMail == Init /\ [][NextMail]_vars

\* The listings, called between creates, approves and rejects with valid
\* inputs, in the second week and with every wallet document there already
InitList == Init /\ now = 10 /\ \A r \in Restaurants : wallets[r].exists

createWithdrawalRequestListed ==
    \E restaurant \in Restaurants, amount \in {Num(1)}, mail \in NoAddress :
        Create(restaurant, amount, "none", mail)

approveListed ==
    \E admin \in Admins, id \in IdInputs, mail \in NoAddress : Approve(admin, id, mail)

rejectListed ==
    \E admin \in Admins, id \in IdInputs, rejectionReason \in {NoReason, "closed"},
       mail \in NoAddress :
        Reject(admin, id, rejectionReason, mail)

NextList ==
    \/ createWithdrawalRequestListed
    \/ approveListed
    \/ rejectListed
    \/ getRestaurantWithdrawalRequests
    \/ getAllWithdrawalRequests

SpecList == InitList /\ [][NextList]_vars

\* The listings called for one page after another, between creates, approves
\* and rejects with valid inputs
PageInputs ==
    {[page |-> Undefined, limit |-> Undefined]}
        \cup {[page |-> NumStr(p), limit |-> NumStr(l)] : p \in 1..3, l \in 1..2}

getRestaurantWithdrawalRequestsPaged ==
    \E restaurant \in Restaurants, status \in {NoStatus, "Pending"}, paging \in PageInputs :
        ListOwn(restaurant, status, paging.page, paging.limit)

getAllWithdrawalRequestsPaged ==
    \E status \in {NoStatus, "Rejected"}, paging \in PageInputs :
        ListAll(status, NoSearch, paging.page, paging.limit)

NextPage ==
    \/ createWithdrawalRequestListed
    \/ approveAfterFailure
    \/ rejectAfterFailure
    \/ getRestaurantWithdrawalRequestsPaged
    \/ getAllWithdrawalRequestsPaged

SpecPage == InitList /\ [][NextPage]_vars

\* Two handlers for one restaurant that run at the same time, after creates
\* that ran alone: each process runs one create, one approve or one reject
RaceBalances == {1, 3}

InitRace ==
    /\ requests = <<>>
    /\ wallets \in [Restaurants -> {[exists |-> TRUE, totalBalance |-> b,
                                     totalWithdrawn |-> 0, transactions |-> <<>>] :
                                        b \in RaceBalances}]
    /\ \A r \in Restaurants \ FaultRestaurants : wallets[r].totalBalance = 1
    /\ now = 10
    /\ orders = OrdersOn(OrderBook, now)
    /\ last = NoCall
    /\ running = [p \in Processes |-> Idle]
    /\ NoPages

createBeforeRace ==
    /\ \A p \in Processes : running[p].pc = "idle"
    /\ \E restaurant \in FaultRestaurants, amount \in {Num(n) : n \in AmountValues},
          mail \in NoAddress :
           Create(restaurant, amount, "none", mail)

createFindWallet ==
    \E p \in Processes, restaurant \in FaultRestaurants, amount \in {Num(1)} :
        CreateFindWallet(p, restaurant, amount)

createFindExisting == \E p \in Processes : CreateFindExisting(p)
createFindPending == \E p \in Processes : CreateFindPending(p)
createInsert == \E p \in Processes : CreateInsert(p)
createSaveWallet == \E p \in Processes : CreateSaveWallet(p)
createSaveRequest == \E p \in Processes : CreateSaveRequest(p)

rejectFindRequest ==
    \E p \in Processes, admin \in Admins, id \in IdInputs : RejectFindRequest(p, admin, id)

rejectFindWallet == \E p \in Processes : RejectFindWallet(p)
rejectSaveRequest == \E p \in Processes : RejectSaveRequest(p)
rejectSaveWallet == \E p \in Processes : RejectSaveWallet(p)

approveFindRequest ==
    \E p \in Processes, admin \in Admins, id \in IdInputs : ApproveFindRequest(p, admin, id)

approveFindWallet == \E p \in Processes : ApproveFindWallet(p)
approveSaveRequest == \E p \in Processes : ApproveSaveRequest(p)
approveSaveWallet == \E p \in Processes : ApproveSaveWallet(p)

NextRace ==
    \/ createBeforeRace
    \/ createFindWallet
    \/ createFindExisting
    \/ createFindPending
    \/ createInsert
    \/ createSaveWallet
    \/ createSaveRequest
    \/ rejectFindRequest
    \/ rejectFindWallet
    \/ rejectSaveRequest
    \/ rejectSaveWallet
    \/ approveFindRequest
    \/ approveFindWallet
    \/ approveSaveRequest
    \/ approveSaveWallet

SpecRace == InitRace /\ [][NextRace]_vars

----------------------------------------------------------------------------
(* What the claims speak of.  A step of a handler is told by last', the     *)
(* record of the call the step makes; the unprimed variables are the state  *)
(* before the call.  The claims about createWithdrawalRequest are about     *)
(* calls of an authenticated restaurant, those about approve and reject     *)
(* about calls of an authenticated admin.                                   *)

CreateStep == last'.op = "create" /\ last'.who \in Restaurants
ApproveStep == last'.op = "approve" /\ last'.who # NoAdmin
RejectStep == last'.op = "reject" /\ last'.who # NoAdmin

\* The amount a create call asks for, when its input denotes one
AskedAmount(input) == input.val
AsksAmount(input) == input.kind \in {"number", "numstr", "prefixstr"}

\* totalBalance, totalWithdrawn and transactions of r's wallet are as before
WalletFieldsKept(r) ==
    /\ wallets'[r].totalBalance = wallets[r].totalBalance
    /\ wallets'[r].totalWithdrawn = wallets[r].totalWithdrawn
    /\ wallets'[r].transactions = wallets[r].transactions

NothingChanged == requests' = requests /\ \A r \in Restaurants : WalletFieldsKept(r)

\* The sum of the amounts of r's requests with a status in sts
OpenAmount(r, sts) ==
    LET ids == {i \in RequestIds : requests[i].restaurantId = r
                                   /\ requests[i].status \in sts}
        sum[S \in SUBSET ids] ==
            IF S = {} THEN 0
            ELSE LET i == CHOOSE x \in S : TRUE
                 IN requests[i].amount + sum[S \ {i}]
    IN sum[ids]

\* The Monday of the week of day d, and the cycle payout and the effective
\* available balance, as the claims put them
MondayOf(d) == CHOOSE m \in (d - 6)..d : m % 7 = 1

DeliveredThisWeek(o, r) ==
    /\ o.restaurantId = r
    /\ o.status = "delivered"
    /\ \E t \in {o.deliveredAt, o.trackingDeliveredAt} :
          t # NoDate /\ t \in MondayOf(now)..(MondayOf(now) + 6)

ClaimedCyclePayout(r) ==
    LET ks == {k \in 1..Len(orders) : DeliveredThisWeek(orders[k], r)}
        net(o) == Max(0, (9 * (o.pricing.subtotal - o.pricing.discount)) \div 10)
        sum[S \in SUBSET ks] ==
            IF S = {} THEN 0
            ELSE LET k == CHOOSE x \in S : TRUE
                 IN net(orders[k]) + sum[S \ {k}]
    IN sum[ks]

ClaimedEffective(r) ==
    Max(wallets[r].totalBalance,
        Max(0, ClaimedCyclePayout(r) - OpenAmount(r, {"Pending", "Approved"})))

\* C1 - a create asking for more than the effective available balance answers
\* 400, creates no request, appends no transaction and leaves totalBalance and
\* totalWithdrawn as they were
C1_OverdrawRejected ==
    [][(/\ CreateStep
        /\ AsksAmount(last'.input)
        /\ AskedAmount(last'.input) > ClaimedEffective(last'.who))
       => (last'.code = 400 /\ NothingChanged)]_vars

C1_Witness ==
    /\ last.op = "create"
    /\ last.code = 400
    /\ last.branch = "insufficient"
    /\ last.amount > last.available
    /\ last.available > 0

\* C2 - with handlers run one at a time, a restaurant never has two Pending requests
C2_OnePendingPerRestaurant ==
    \A r \in Restaurants :
        Cardinality({i \in RequestIds : /\ requests[i].restaurantId = r
                                        /\ requests[i].status = "Pending"}) <= 1

\* a create that had the balance for it was refused because a request was Pending
C2_Witness ==
    /\ last.op = "create"
    /\ last.code = 400
    /\ last.branch = "pending"
    /\ Len(requests) >= 1

\* C3 - a successful approve sets the request to Approved and leaves totalBalance
\* as it was, whichever way the transaction was looked up
C3_ApproveKeepsBalance ==
    [][(ApproveStep /\ last'.code = 200)
       => LET r == requests[last'.id].restaurantId
          IN /\ requests[last'.id].status = "Pending"
             /\ requests'[last'.id].status = "Approved"
             /\ wallets'[r].totalBalance = wallets[r].totalBalance]_vars

\* C4 - a successful reject sets the request to Rejected and leaves totalBalance
\* higher than before by the request's amount, whichever way the transaction
\* was looked up
C4_RejectRefundsAmount ==
    [][(RejectStep /\ last'.code = 200)
       => LET r == requests[last'.id].restaurantId
          IN /\ requests[last'.id].status = "Pending"
             /\ requests'[last'.id].status = "Rejected"
             /\ wallets'[r].totalBalance
                    = wallets[r].totalBalance + requests[last'.id].amount]_vars

\* a reject that found no transaction of the request and added a refund
C4_Witness ==
    /\ last.op = "reject"
    /\ last.code = 200
    /\ last.branch = "added"
    /\ requests[last.id].status = "Rejected"
    /\ wallets[requests[last.id].restaurantId].totalBalance = last.balance + last.amount

\* C5 - totalBalance is never negative, and a create asking for more than the
\* stored totalBalance is not refused for that: when the cycle payout covers it
\* and no request is Pending it succeeds, and it leaves totalBalance at 0
C5_BalanceNeverNegative ==
    [][/\ \A r \in Restaurants : wallets[r].totalBalance >= 0 /\ wallets'[r].totalBalance >= 0
       /\ (/\ CreateStep
           /\ AsksAmount(last'.input)
           /\ AskedAmount(last'.input) > wallets[last'.who].totalBalance)
          => /\ last'.code = 201 => wallets'[last'.who].totalBalance = 0
             /\ (/\ AskedAmount(last'.input) <= ClaimedEffective(last'.who)
                 /\ OpenAmount(last'.who, {"Pending"}) = 0)
                => last'.code = 201]_vars

C5_Witness ==
    /\ last.op = "create"
    /\ last.code = 201
    /\ last.amount > last.balance
    /\ last.balance > 0
    /\ wallets[last.who].totalBalance = 0

\* C6 - approve and reject of a request that is not Pending answer 400 and
\* change neither a request nor a wallet
C6_ProcessedRequestUntouched ==
    [][(/\ ApproveStep \/ RejectStep
        /\ last'.id \in RequestIds
        /\ requests[last'.id].status # "Pending")
       => (last'.code = 400 /\ requests' = requests /\ wallets' = wallets)]_vars

C6_Witness ==
    /\ last.op \in {"approve", "reject"}
    /\ last.code = 400
    /\ last.id \in RequestIds
    /\ requests[last.id].status \in {"Approved", "Rejected"}

\* C7 - a successful create adds one request, Pending, of the amount asked, for
\* the calling restaurant; appends one Pending withdrawal transaction of that
\* amount to that restaurant's wallet; and sets the request's transactionId to
\* the transaction's id
C7_CreateAddsRequestAndTransaction ==
    [][(CreateStep /\ last'.code = 201)
       => LET r == last'.who
              n == Len(requests)
              before == wallets[r].transactions
              after == wallets'[r].transactions
              q == requests'[n + 1]
              t == after[Len(before) + 1]
          IN /\ Len(requests') = n + 1
             /\ SubSeq(requests', 1, n) = requests
             /\ q.restaurantId = r
             /\ q.status = "Pending"
             /\ AsksAmount(last'.input) /\ q.amount = AskedAmount(last'.input)
             /\ Len(after) = Len(before) + 1
             /\ SubSeq(after, 1, Len(before)) = before
             /\ t.type = "withdrawal" /\ t.status = "Pending" /\ t.amount = q.amount
             /\ t.id # NoId /\ q.transactionId = t.id
             /\ \A k \in 1..Len(before) : before[k].id # t.id
             /\ \A o \in Restaurants \ {r} :
                    wallets'[o].transactions = wallets[o].transactions]_vars

C7_Witness ==
    /\ last.op = "create"
    /\ last.code = 201
    /\ requests[last.id].status = "Pending"
    /\ \E k \in 1..Len(wallets[last.who].transactions) :
          LET t == wallets[last.who].transactions[k]
          IN /\ k > 1
             /\ t.id = requests[last.id].transactionId
             /\ t.status = "Pending"
             /\ t.amount = last.amount

\* C8, as claimed - a successful create of amount a lowers totalBalance by
\* exactly a and raises totalWithdrawn by exactly a
C8_CreateMovesExactAmount ==
    [][(CreateStep /\ last'.code = 201)
       => LET r == last'.who
              a == requests'[Len(requests')].amount
          IN /\ wallets'[r].totalBalance = wallets[r].totalBalance - a
             /\ wallets'[r].totalWithdrawn = wallets[r].totalWithdrawn + a]_vars

\* C8, amended - a successful create of amount a lowers totalBalance by exactly
\* a when a is at most the stored totalBalance and sets it to 0 when a is more
\* (a request accepted through the cycle payout); it raises totalWithdrawn by
\* exactly a
C8_CreateDeductsDownToZero ==
    [][(CreateStep /\ last'.code = 201)
       => LET r == last'.who
              a == requests'[Len(requests')].amount
          IN /\ a <= wallets[r].totalBalance
                   => wallets'[r].totalBalance = wallets[r].totalBalance - a
             /\ a > wallets[r].totalBalance => wallets'[r].totalBalance = 0
             /\ wallets'[r].totalWithdrawn = wallets[r].totalWithdrawn + a]_vars

\* a create accepted above the stored balance, by a wallet that had withdrawn before
C8_Witness ==
    /\ last.op = "create"
    /\ last.code = 201
    /\ last.amount > last.balance
    /\ wallets[last.who].totalBalance = 0
    /\ wallets[last.who].totalWithdrawn > last.amount

\* C9, as claimed - create compares the amount with max(totalBalance,
\* max(0, cyclePayout - S)), and a request of exactly that amount is accepted
C9_EqualAmountAccepted ==
    [][(CreateStep /\ AsksAmount(last'.input) /\ AskedAmount(last'.input) > 0)
       => /\ last'.available = ClaimedEffective(last'.who)
          /\ AskedAmount(last'.input) = ClaimedEffective(last'.who)
                => last'.code = 201]_vars

\* C9, amended - create compares the amount with max(totalBalance,
\* max(0, cyclePayout - S)): a positive amount above it is refused as
\* insufficient, one up to and including it is not, and is accepted when the
\* restaurant has no Pending request
C9_AvailableBalanceFormula ==
    [][(CreateStep /\ AsksAmount(last'.input) /\ AskedAmount(last'.input) > 0)
       => LET a == AskedAmount(last'.input)
              r == last'.who
          IN /\ last'.available = ClaimedEffective(r)
             /\ a > ClaimedEffective(r)
                   => last'.code = 400 /\ last'.branch = "insufficient"
             /\ a <= ClaimedEffective(r) => last'.branch # "insufficient"
             /\ (a <= ClaimedEffective(r) /\ OpenAmount(r, {"Pending"}) = 0)
                   => last'.code = 201]_vars

\* a create of exactly the available balance, which the cycle payout and an
\* earlier Approved request set, was accepted
C9_Witness ==
    /\ last.op = "create"
    /\ last.code = 201
    /\ last.amount = last.available
    /\ last.available > last.balance
    /\ \E i \in RequestIds : /\ requests[i].restaurantId = last.who
                              /\ requests[i].status = "Approved"

\* JavaScript's isNaN(amount): the amount is missing or is not a number
IsNotANumber(input) == input.kind \notin {"number", "numstr"}

\* C10 - a create whose amount is missing, zero, negative or not a number
\* answers 400, creates no request and changes no wallet field
C10_InvalidAmountRejected ==
    [][(/\ CreateStep
        /\ IsNotANumber(last'.input) \/ last'.input.val <= 0)
       => (last'.code = 400 /\ NothingChanged)]_vars

\* C11 - while a restaurant has a Pending request, every create it calls,
\* whatever the amount and the balances, answers 400 and leaves the requests
\* and the wallets as they were
C11_PendingBlocksCreate ==
    [][(/\ CreateStep
        /\ \E i \in RequestIds : /\ requests[i].restaurantId = last'.who
                                  /\ requests[i].status = "Pending")
       => (last'.code = 400 /\ requests' = requests /\ wallets' = wallets)]_vars

\* a create that the stored balance alone would have covered was refused
\* because a request was Pending
C11_Witness ==
    /\ last.op = "create"
    /\ last.code = 400
    /\ last.branch = "pending"
    /\ last.balance > 0
    /\ last.amount <= last.balance

\* C12 - with every create that stored a request having succeeded, each
\* request's transactionId is the id of exactly one transaction, which is in
\* the wallet of the request's restaurant, is a withdrawal and has the
\* request's amount; no two requests have the same transactionId
C12_RequestReferencesOneTransaction ==
    /\ \A i \in RequestIds :
          LET q == requests[i]
              Holders(r) == {k \in 1..Len(wallets[r].transactions) :
                               wallets[r].transactions[k].id = q.transactionId}
          IN /\ q.transactionId # NoId
             /\ Cardinality(Holders(q.restaurantId)) = 1
             /\ \A k \in Holders(q.restaurantId) :
                   LET t == wallets[q.restaurantId].transactions[k]
                   IN t.type = "withdrawal" /\ t.amount = q.amount
             /\ \A o \in Restaurants \ {q.restaurantId} : Holders(o) = {}
    /\ \A i, j \in RequestIds :
          i # j => requests[i].transactionId # requests[j].transactionId

\* a restaurant's second request was created, linked to the second
\* transaction of its wallet
C12_Witness ==
    /\ last.op = "create"
    /\ last.code = 201
    /\ last.id = 2
    /\ requests[1].restaurantId = requests[2].restaurantId
    /\ requests[1].status # "Pending"
    /\ Len(wallets[last.who].transactions) = 2
    /\ wallets[last.who].transactions[2].id = requests[2].transactionId

\* C13 - after a successful approve the wallet has a Completed withdrawal
\* transaction of the request: the one transactionId names when the wallet has
\* it, else the Pending withdrawal whose description holds the request's id,
\* else a new one of the request's amount at the end of the list; the status of
\* every other transaction is as before
C13_ApproveCompletesTransaction ==
    [][(ApproveStep /\ last'.code = 200)
       => LET id == last'.id
              q == requests[id]
              before == wallets[q.restaurantId].transactions
              after == wallets'[q.restaurantId].transactions
              named == {k \in 1..Len(before) : /\ q.transactionId # NoId
                                               /\ before[k].id = q.transactionId}
              described == {k \in 1..Len(before) :
                               /\ before[k].type = "withdrawal"
                               /\ before[k].status = "Pending"
                               /\ before[k].description.requestId = id}
              OnlyCompleted(k) ==
                  /\ Len(after) = Len(before)
                  /\ after[k].status = "Completed"
                  /\ after[k].type = "withdrawal"
                  /\ \A j \in 1..Len(before) :
                        j # k => after[j].status = before[j].status
          IN IF named # {} THEN \A k \in named : OnlyCompleted(k)
             ELSE IF described # {} THEN \E k \in described : OnlyCompleted(k)
             ELSE /\ Len(after) = Len(before) + 1
                  /\ after[Len(after)].status = "Completed"
                  /\ after[Len(after)].type = "withdrawal"
                  /\ after[Len(after)].amount = q.amount
                  /\ \A j \in 1..Len(before) :
                        after[j].status = before[j].status]_vars

\* an approve of a request without transactionId that found the request's
\* transaction by its description
C13_Witness ==
    /\ last.op = "approve"
    /\ last.code = 200
    /\ last.branch = "matched"
    /\ requests[last.id].transactionId = NoId
    /\ \E k \in 1..Len(wallets[requests[last.id].restaurantId].transactions) :
          LET t == wallets[requests[last.id].restaurantId].transactions[k]
          IN t.description.requestId = last.id /\ t.status = "Completed"

\* C14 - after a successful reject the transaction the request's transactionId
\* names is Cancelled, totalWithdrawn is max(0, previous totalWithdrawn - amount),
\* and rejectionReason is the reason given when one (not the empty text) was
\* given and is left unset when none was
C14_RejectCancelsAndRecordsReason ==
    [][(RejectStep /\ last'.code = 200)
       => LET id == last'.id
              q == requests[id]
              r == q.restaurantId
              before == wallets[r].transactions
              after == wallets'[r].transactions
              named == {k \in 1..Len(before) : before[k].id = q.transactionId}
          IN /\ named # {}
             /\ Len(after) = Len(before)
             /\ \A k \in named : after[k].status = "Cancelled"
             /\ wallets'[r].totalWithdrawn
                    = Max(0, wallets[r].totalWithdrawn - q.amount)
             /\ last'.reason \notin {NoReason, EmptyReason}
                    => requests'[id].rejectionReason = last'.reason
             /\ last'.reason \in {NoReason, EmptyReason}
                    => requests'[id].rejectionReason = NoReason]_vars

\* a reject with a reason, of a request created when the wallet had withdrawn
\* before
C14_Witness ==
    /\ last.op = "reject"
    /\ last.code = 200
    /\ last.reason = "closed"
    /\ requests[last.id].rejectionReason = "closed"
    /\ wallets[requests[last.id].restaurantId].totalWithdrawn > 0
    /\ \E k \in 1..Len(wallets[requests[last.id].restaurantId].transactions) :
          LET t == wallets[requests[last.id].restaurantId].transactions[k]
          IN t.id = requests[last.id].transactionId /\ t.status = "Cancelled"

\* C15 - whatever becomes of the e-mail step (nothing to send, sent, failed
\* after the answer, thrown), a create that passes its checks answers 201 and
\* an approve or reject of a Pending request answers 200, and the requests and
\* the wallet they leave are the ones the state before the call determines
C15_EmailNeverChangesResult ==
    [][/\ (/\ CreateStep
           /\ AsksAmount(last'.input)
           /\ AskedAmount(last'.input) > 0
           /\ AskedAmount(last'.input) <= ClaimedEffective(last'.who)
           /\ OpenAmount(last'.who, {"Pending"}) = 0)
          => LET r == last'.who
                 a == AskedAmount(last'.input)
                 n == Len(requests)
                 after == wallets'[r].transactions
             IN /\ last'.code = 201
                /\ last'.mail \in EmailOutcomes
                /\ requests' = Append(requests,
                       [restaurantId |-> r, amount |-> a, status |-> "Pending",
                        processedAt |-> NoDate, processedBy |-> NoAdmin,
                        rejectionReason |-> NoReason,
                        transactionId |-> after[Len(after)].id])
                /\ wallets'[r].totalBalance = Max(0, wallets[r].totalBalance - a)
                /\ wallets'[r].totalWithdrawn = wallets[r].totalWithdrawn + a
                /\ SubSeq(after, 1, Len(after) - 1) = wallets[r].transactions
                /\ after[Len(after)].status = "Pending"
                /\ after[Len(after)].amount = a
       /\ (/\ ApproveStep \/ RejectStep
           /\ last'.id \in RequestIds
           /\ requests[last'.id].status = "Pending")
          => LET id == last'.id
                 q == requests[id]
                 r == q.restaurantId
                 approved == last'.op = "approve"
                 before == wallets[r].transactions
                 after == wallets'[r].transactions
             IN /\ last'.code = 200
                /\ last'.mail \in EmailOutcomes
                /\ requests' = [requests EXCEPT
                       ![id] = [q EXCEPT
                           !.status = IF approved THEN "Approved" ELSE "Rejected",
                           !.processedAt = now,
                           !.processedBy = last'.who,
                           !.rejectionReason =
                               IF approved \/ last'.reason \in {NoReason, EmptyReason}
                               THEN NoReason ELSE last'.reason]]
                /\ wallets'[r].totalBalance
                       = wallets[r].totalBalance + (IF approved THEN 0 ELSE q.amount)
                /\ wallets'[r].totalWithdrawn
                       = IF approved THEN wallets[r].totalWithdrawn
                         ELSE Max(0, wallets[r].totalWithdrawn - q.amount)
                /\ Len(after) = Len(before)
                /\ \A k \in 1..Len(before) :
                      after[k].status
                          = IF before[k].id # q.transactionId THEN before[k].status
                            ELSE IF approved THEN "Completed" ELSE "Cancelled"]_vars

\* a reject whose e-mail step threw answered 200 and left the request Rejected
C15_Witness ==
    /\ last.op = "reject"
    /\ last.mail = "threw"
    /\ last.code = 200
    /\ requests[last.id].status = "Rejected"

\* C16 - a create without an authenticated restaurant, and an approve or a
\* reject without an authenticated admin, answer 401 whatever their other
\* inputs and change no request and no wallet
C16_UnauthenticatedRefused ==
    [][(/\ last'.op \in {"create", "approve", "reject"}
        /\ last'.who \notin Restaurants \cup Admins)
       => (last'.code = 401 /\ requests' = requests /\ wallets' = wallets)]_vars

\* a reject without an admin was refused while a request was Pending
C16_Witness ==
    /\ last.op = "reject"
    /\ last.who = NoAdmin
    /\ last.code = 401
    /\ \E i \in RequestIds : requests[i].status = "Pending"

\* C19 - between calls, a request has processedAt and processedBy set exactly
\* when its status is Approved or Rejected; the request an approve or reject
\* has just processed has the calling admin as processedBy; and only a
\* Rejected request has a rejectionReason
C19_ProcessingFieldsFollowStatus ==
    /\ \A i \in RequestIds :
          LET q == requests[i]
              processed == q.status \in {"Approved", "Rejected"}
          IN /\ q.processedAt # NoDate <=> processed
             /\ q.processedBy # NoAdmin <=> processed
             /\ q.rejectionReason # NoReason => q.status = "Rejected"
    /\ (last.op \in {"approve", "reject"} /\ last.code = 200)
          => /\ requests[last.id].processedBy = last.who
             /\ requests[last.id].processedAt = now

\* one request approved by one admin, another rejected with a reason by
\* another admin
C19_Witness ==
    /\ Len(requests) = 2
    /\ requests[1].status = "Approved"
    /\ requests[1].processedBy = "a1"
    /\ requests[2].status = "Rejected"
    /\ requests[2].processedBy = "a2"
    /\ requests[2].rejectionReason = "closed"
    /\ last.op = "reject"
    /\ last.who = "a2"

\* A step of a listing that answers with a list
ListStep == last'.op \in {"listOwn", "listAll"} /\ last'.code = 200

\* The requests a listing call is about, whatever their status: those of the
\* calling restaurant, or those the admin's search text matches
Listable(call) ==
    {i \in RequestIds : /\ call.op = "listOwn" => requests[i].restaurantId = call.who
                        /\ MatchesSearch(requests[i], call.listing.search)}

\* C20 - a listing called with status Pending, Approved, Rejected or Processed
\* returns only requests of that status and counts all of them; called with
\* any other status, or none, it filters by no status: it counts the requests
\* of every status and, when one page holds them, returns them all
C20_StatusFilter ==
    [][ListStep
       => LET l == last'.listing
              shown == {l.requests[k] : k \in 1..Len(l.requests)}
              named == l.status \in {"Pending", "Approved", "Rejected", "Processed"}
              wanted == {i \in Listable(last') : named => requests[i].status = l.status}
          IN /\ shown \subseteq wanted
             /\ l.total = Cardinality(wanted)
             /\ (l.page = 1 /\ l.limit >= Cardinality(wanted)) => shown = wanted]_vars

\* a listing called with status "pending" returned requests of two statuses
C20_Witness ==
    /\ last.op \in {"listOwn", "listAll"}
    /\ last.code = 200
    /\ last.listing.status = "pending"
    /\ \E j, k \in 1..Len(last.listing.requests) :
          requests[last.listing.requests[j]].status
              # requests[last.listing.requests[k]].status

\* C17 - over any sequence of operations no request is removed, a request's
\* amount and restaurantId stay as created, its status, processedAt,
\* processedBy and rejectionReason change only in an approve or a reject of
\* that request, and a create or a listing changes no stored request
C17_RequestsGrowAndChangeOnlyByAdmin ==
    [][/\ Len(requests') >= Len(requests)
       /\ \A i \in RequestIds :
             /\ requests'[i].amount = requests[i].amount
             /\ requests'[i].restaurantId = requests[i].restaurantId
             /\ (\/ requests'[i].status # requests[i].status
                 \/ requests'[i].processedAt # requests[i].processedAt
                 \/ requests'[i].processedBy # requests[i].processedBy
                 \/ requests'[i].rejectionReason # requests[i].rejectionReason)
                => ((ApproveStep \/ RejectStep) /\ last'.id = i)
       /\ last'.op \in {"create", "listOwn", "listAll"}
             => \A i \in RequestIds : requests'[i] = requests[i]]_vars

\* a restaurant created a request and listed its requests after an earlier
\* request of it had been rejected with a reason
C17_Witness ==
    /\ last.op = "listOwn"
    /\ last.code = 200
    /\ Len(requests) = 2
    /\ requests[1].restaurantId = last.who
    /\ requests[1].status = "Rejected"
    /\ requests[1].rejectionReason = "closed"
    /\ requests[2].restaurantId = last.who
    /\ requests[2].status = "Pending"

\* A step in which process p saves the wallet
SavesWallet(p) ==
    \/ running[p].pc = "inserted" /\ running'[p].pc = "saved"
    \/ running[p].op = "reject" /\ running[p].pc = "saved" /\ running'[p].pc = "done"

\* The totalBalance a handler computes from the one it loaded
ComputedBalance(my) ==
    IF my.op = "create" THEN Max(0, my.wallet.totalBalance - my.amount)
    ELSE my.wallet.totalBalance + my.amount

\* C18 - a handler's save of the wallet sets totalBalance to the value the
\* handler computed from the copy it loaded, whatever another handler saved in
\* between; so a create and a reject that both loaded the wallet before either
\* saved it leave a totalBalance that holds only the update of the one that
\* saved last
C18_LaterSaveOverwrites ==
    [][\A p \in Processes :
          (SavesWallet(p) /\ ComputedBalance(running[p]) # running[p].wallet.totalBalance)
             => LET my == running[p]
                    r == IF my.op = "create" THEN my.who ELSE my.request.restaurantId
                IN wallets'[r].totalBalance = ComputedBalance(my)]_vars

\* a create and a reject of the restaurant's older request have both answered
\* with success, both had loaded the same totalBalance, and the stored one is
\* what the create made of it: the refund is lost
C18_Witness ==
    \E p, q \in Processes :
        /\ running[p].op = "create" /\ running[p].code = 201
        /\ running[q].op = "reject" /\ running[q].code = 200
        /\ running[q].request.restaurantId = running[p].who
        /\ requests[running[q].id].status = "Rejected"
        /\ requests[running[p].id].status = "Pending"
        /\ running[q].amount > 0
        /\ running[p].wallet.totalBalance = running[q].wallet.totalBalance
        /\ running[p].wallet.totalBalance >= running[p].amount
        /\ wallets[running[p].who].totalBalance
               = running[p].wallet.totalBalance - running[p].amount

\* The k-th newest of a set of requests
Ranked(ids, k) == CHOOSE i \in ids : Cardinality({j \in ids : j > i}) = k - 1

\* Page p of a set of requests, l to the page, newest first: the requests at
\* positions (p-1)*l+1 to p*l, as far as there are any
ClaimedPage(ids, p, l) ==
    LET first == (p - 1) * l + 1
        end == IF p * l < Cardinality(ids) THEN p * l ELSE Cardinality(ids)
        n == IF end >= first THEN end - first + 1 ELSE 0
    IN [k \in 1..n |-> Ranked(ids, first + k - 1)]

\* C21 - getRestaurantWithdrawalRequests returns only requests of the calling
\* restaurant, whatever the status, the page and the limit, and its answer is
\* the one the restaurant's own requests determine: the page and the total are
\* those of the restaurant's requests alone
C21_OwnListingShowsOwnRequestsOnly ==
    [][(last'.op = "listOwn" /\ last'.code = 200)
       => LET l == last'.listing
              own == {i \in RequestIds : requests[i].restaurantId = last'.who}
              wanted == {i \in own : l.status \in {"Pending", "Approved", "Rejected",
                                                   "Processed"}
                                        => requests[i].status = l.status}
          IN /\ \A k \in 1..Len(l.requests) :
                    /\ l.requests[k] \in RequestIds
                    /\ requests[l.requests[k]].restaurantId = last'.who
             /\ l.requests = ClaimedPage(wanted, l.page, l.limit)
             /\ l.total = Cardinality(wanted)]_vars

\* a restaurant listed its requests while another restaurant had one, and got
\* its own only
C21_Witness ==
    /\ last.op = "listOwn"
    /\ last.code = 200
    /\ Len(last.listing.requests) = 1
    /\ last.listing.total = 1
    /\ requests[last.listing.requests[1]].restaurantId = last.who
    /\ \E i \in RequestIds : requests[i].restaurantId # last.who

\* C22 - for page p >= 1 and limit l >= 1 a listing returns the matching
\* requests at positions (p-1)*l+1 to p*l of the list ordered newest first,
\* reports the number of all matching requests as total and ceil(total / l) as
\* pages, and the pages 1 to pages, as the handler cuts them, hold every
\* matching request exactly once: put one after the other they have as many
\* entries as there are matching requests, and every matching request is
\* among them
C22_PagesPartitionTheMatches ==
    [][(ListStep /\ last'.listing.page >= 1 /\ last'.listing.limit >= 1)
       => LET l == last'.listing
              named == l.status \in {"Pending", "Approved", "Rejected", "Processed"}
              wanted == {i \in Listable(last') : named => requests[i].status = l.status}
              sorted == Sorted(wanted)
              joined[p \in 0..l.pages] ==
                  IF p = 0 THEN <<>>
                  ELSE joined[p - 1] \o SkipLimit(sorted, (p - 1) * l.limit, l.limit)
              all == joined[l.pages]
          IN /\ l.requests = ClaimedPage(wanted, l.page, l.limit)
             /\ l.total = Cardinality(wanted)
             /\ l.pages * l.limit >= l.total
             /\ (l.pages - 1) * l.limit < l.total
             /\ Len(all) = Cardinality(wanted)
             /\ {all[k] : k \in 1..Len(all)} = wanted]_vars

\* the second page of a listing of two requests, one to the page, holds the
\* older request
C22_Witness ==
    /\ last.op \in {"listOwn", "listAll"}
    /\ last.code = 200
    /\ last.listing.page = 2
    /\ last.listing.limit = 1
    /\ last.listing.total = 2
    /\ last.listing.pages = 2
    /\ last.listing.requests = <<1>>

\* C23 - also when two createWithdrawalRequest handlers of one restaurant take
\* their database steps in turns, both looking for a Pending request before
\* either inserts its own, no two requests of one restaurant are Pending at
\* the same time
C23_OnePendingWhenCreatesInterleave ==
    \A i, j \in RequestIds :
        (/\ i # j
         /\ requests[i].restaurantId = requests[j].restaurantId
         /\ requests[i].status = "Pending")
            => requests[j].status # "Pending"

\* Process p has answered a call of op for request i with success
Succeeded(p, op, i) ==
    /\ running[p].op = op
    /\ running[p].pc = "done"
    /\ running[p].code = 200
    /\ running[p].id = i

\* C24 - when an approve and a reject of one Pending request run at the same
\* time, not both succeed: no request is Approved after a reject of it saved
\* the refund of its amount, and no Rejected request has its transaction
\* Completed
C24_ApproveAndRejectExclude ==
    \A i \in RequestIds :
        LET q == requests[i]
            w == wallets[q.restaurantId]
        IN /\ ~(\E a, b \in Processes : Succeeded(a, "approve", i) /\ Succeeded(b, "reject", i))
           /\ q.status = "Approved" => ~(\E b \in Processes : Succeeded(b, "reject", i))
           /\ q.status = "Rejected"
                 => \A k \in 1..Len(w.transactions) :
                        w.transactions[k].id = q.transactionId
                            => w.transactions[k].status # "Completed"

\* C25 - the amount of a request is added back to totalBalance at most once,
\* also when two rejects of the request take their steps in turns: a reject
\* does not raise totalBalance when another reject of the same request has
\* already saved its refund
C25_RefundedAtMostOnce ==
    [][\A p \in Processes :
          LET my == running[p]
              r == my.request.restaurantId
          IN (/\ my.op = "reject" /\ my.pc = "saved" /\ running'[p].pc = "done"
              /\ wallets'[r].totalBalance > wallets[r].totalBalance)
                => ~(\E q \in Processes \ {p} : Succeeded(q, "reject", my.id))]_vars

\* C26 - a create, approve or reject that answers 500 because a persistence
\* step failed leaves the stored state as it was before the call: no new
\* request and no balance change after a failed create, the request Pending
\* and the wallet unchanged after a failed approve or reject
C26_FailedCallLeavesNothing ==
    [][(last'.op \in {"create", "approve", "reject"} /\ last'.code = 500)
       => NothingChanged]_vars

\* C27 - a successful create followed at once by a successful reject of the
\* request it created leaves totalBalance and totalWithdrawn of the wallet at
\* their values before the create, for every accepted amount, those above the
\* stored totalBalance included
C27_CreateThenRejectRestores ==
    [][(/\ last.op = "create" /\ last.code = 201
        /\ RejectStep /\ last'.code = 200 /\ last'.id = last.id)
       => LET r == last.who
          IN /\ wallets'[r].totalBalance = last.balance
             /\ wallets'[r].totalWithdrawn = wallets[r].totalWithdrawn - last.amount]_vars

\* C28 - with handlers run one at a time, a fixed cycle payout P and no other
\* credit to the wallet, a restaurant that starts with totalBalance W0 has in
\* every state totalBalance plus the amounts of its Pending and Approved
\* requests at most max(W0, P); so the Approved amounts alone never exceed
\* max(W0, P)
C28_BalancePlusOpenBounded ==
    \A r \in Restaurants : \A W0 \in {0} \cup InitialBalances :
        (wallets[r].totalBalance = W0)
            => [](/\ wallets[r].totalBalance + OpenAmount(r, {"Pending", "Approved"})
                        <= Max(W0, ClaimedCyclePayout(r))
                  /\ OpenAmount(r, {"Approved"}) <= Max(W0, ClaimedCyclePayout(r)))

\* a restaurant has used up the whole of its cycle payout, which is more than
\* the balance it started with: one request Approved, another Approved or
\* Pending, and nothing left in the wallet
C28_Witness ==
    \E r \in Restaurants :
        /\ OpenAmount(r, {"Pending", "Approved"}) = ClaimedCyclePayout(r)
        /\ OpenAmount(r, {"Approved"}) > 0
        /\ Cardinality({i \in RequestIds : requests[i].restaurantId = r}) = 2
        /\ ClaimedCyclePayout(r) > 1
        /\ wallets[r].totalBalance = 0
        /\ last.op = "create" /\ last.code = 201 /\ last.who = r

\* C29 - from wallets with totalWithdrawn 0 and no requests, with handlers run
\* one at a time and no persistence failure, totalWithdrawn of a restaurant is
\* in every state the sum of the amounts of its Pending and Approved requests;
\* so a reject never has less to take the amount from than the amount, and an
\* approve leaves totalWithdrawn as it was
C29_WithdrawnIsOpenAmount ==
    [][/\ \A r \in Restaurants :
             /\ wallets[r].totalWithdrawn = OpenAmount(r, {"Pending", "Approved"})
             /\ wallets'[r].totalWithdrawn = OpenAmount(r, {"Pending", "Approved"})'
       /\ (RejectStep /\ last'.code = 200)
             => wallets[requests[last'.id].restaurantId].totalWithdrawn
                    >= requests[last'.id].amount
       /\ (ApproveStep /\ last'.code = 200)
             => \A r \in Restaurants :
                    wallets'[r].totalWithdrawn = wallets[r].totalWithdrawn]_vars

\* a request was rejected while an earlier one of the restaurant is Approved:
\* totalWithdrawn is down to the Approved amount
C29_Witness ==
    /\ last.op = "reject"
    /\ last.code = 200
    /\ \E i \in RequestIds :
          /\ requests[i].restaurantId = requests[last.id].restaurantId
          /\ requests[i].status = "Approved"
          /\ wallets[requests[i].restaurantId].totalWithdrawn = requests[i].amount

\* C30 - a request changes its status only from Pending to Approved or from
\* Pending to Rejected: a request that is Approved or Rejected keeps its
\* status whatever is done later, a new request starts Pending, and no request
\* is ever Processed
C30_OnlyPendingChangesStatus ==
    [][/\ \A i \in RequestIds :
             requests'[i].status # requests[i].status
                => /\ requests[i].status = "Pending"
                   /\ requests'[i].status \in {"Approved", "Rejected"}
       /\ \A i \in 1..Len(requests') :
             /\ requests'[i].status # "Processed"
             /\ i \notin RequestIds => requests'[i].status = "Pending"]_vars

\* No handler is between two of its database steps
Quiescent == \A p \in Processes : running[p].pc \in {"idle", "done"}

\* The status a request's transaction has when it agrees with the request's
TransactionStatusOf(status) ==
    CASE status = "Pending" -> "Pending"
      [] status = "Approved" -> "Completed"
      [] status = "Rejected" -> "Cancelled"
      [] OTHER -> "none"

\* C31 - when no handler is in progress and no persistence step has failed,
\* the transaction a request is linked to has the status that goes with the
\* request's: Pending with Pending, Completed with Approved, Cancelled with
\* Rejected; and a transaction that is Completed or Cancelled keeps its status
C31_RequestAndTransactionAgree ==
    [][/\ Quiescent'
          => \A i \in 1..Len(requests') :
                LET q == requests'[i]
                    ts == wallets'[q.restaurantId].transactions
                IN \A k \in 1..Len(ts) :
                      ts[k].id = q.transactionId
                         => ts[k].status = TransactionStatusOf(q.status)
       /\ \A r \in Restaurants : \A k \in 1..Len(wallets[r].transactions) :
             wallets[r].transactions[k].status \in {"Completed", "Cancelled"}
                => wallets'[r].transactions[k].status = wallets[r].transactions[k].status]_vars

\* The restaurant a call acts for: the caller of a create, the restaurant of
\* the request of an approve or a reject
ActsFor(call) ==
    IF call.op = "create" THEN call.who
    ELSE IF call.id \in RequestIds THEN requests[call.id].restaurantId
    ELSE NoRestaurant

\* C32 - a create, an approve or a reject acting for one restaurant leaves the
\* wallet and the requests of every other restaurant as they were, and an
\* approve or a reject of a request changes the status of no transaction but
\* the request's own
C32_OtherRestaurantsUntouched ==
    [][(CreateStep \/ ApproveStep \/ RejectStep)
       => LET A == ActsFor(last')
          IN /\ \A r \in Restaurants \ {A} : wallets'[r] = wallets[r]
             /\ \A i \in RequestIds :
                   requests[i].restaurantId # A => requests'[i] = requests[i]
             /\ \A i \in 1..Len(requests') :
                   i \notin RequestIds => requests'[i].restaurantId = A
             /\ (last'.op \in {"approve", "reject"} /\ last'.code = 200)
                   => \A k \in 1..Len(wallets[A].transactions) :
                         wallets[A].transactions[k].id # requests[last'.id].transactionId
                            => wallets'[A].transactions[k].status
                                   = wallets[A].transactions[k].status]_vars

\* the second request of a restaurant was approved while its first one is
\* Rejected, its transaction Cancelled, and the other restaurant has a wallet
C32_Witness ==
    /\ last.op = "approve"
    /\ last.code = 200
    /\ last.id = 2
    /\ requests[1].restaurantId = requests[2].restaurantId
    /\ requests[1].status = "Rejected"
    /\ LET w == wallets[requests[2].restaurantId]
       IN /\ Len(w.transactions) = 2
          /\ w.transactions[1].status = "Cancelled"
          /\ w.transactions[2].status = "Completed"
    /\ \E r \in Restaurants \ {requests[2].restaurantId} :
          wallets[r].exists /\ wallets[r].totalBalance > 0

----------------------------------------------------------------------------
(* The Notifications page of Coupons.jsx *)

\* The orders the server can answer with.  "" stands for a field the order
\* does not have, 0 for a missing timestamp: both are falsy in the code.
ServerOrders ==
    [a |-> [_id |-> "o1", orderId |-> "ORD-1", updatedAt |-> 3, createdAt |-> 1],
     b |-> [_id |-> "o2", orderId |-> "ORD-2", updatedAt |-> 0, createdAt |-> 2],
     c |-> [_id |-> "",   orderId |-> "ORD-3", updatedAt |-> 0, createdAt |-> 4],
     d |-> [_id |-> "",   orderId |-> "",      updatedAt |-> 0, createdAt |-> 0]]

\* The lists of orders getOrders can answer with
OrderRows ==
    { <<>>,
      <<ServerOrders.a>>,
      <<ServerOrders.a, ServerOrders.b>>,
      <<ServerOrders.b, ServerOrders.c, ServerOrders.a>>,
      <<ServerOrders.c, ServerOrders.d>>,
      <<ServerOrders.a, ServerOrders.a>> }

\* The ids a notification can have
NotificationIds == {"o1", "o2", "ORD-3"}

MaxPending == 2    \* a refresh is started while fewer getOrders calls than this wait

\* The elements of a list
Elements(list) == {list[k] : k \in 1..Len(list)}

\* JSON text is a list of tokens: brackets, commas and quoted strings
Punct(c) == [kind |-> "punct", text |-> c]
Quoted(str) == [kind |-> "string", text |-> str]

RECURSIVE JSONitems(_)
JSONitems(ids) ==
    IF Len(ids) = 0 THEN <<>>
    ELSE IF Len(ids) = 1 THEN <<Quoted(ids[1])>>
    ELSE <<Quoted(ids[1]), Punct(",")>> \o JSONitems(Tail(ids))

\* JSON.stringify of an array of strings
JSONstringify(ids) == <<Punct("[")>> \o JSONitems(ids) \o <<Punct("]")>>

\* The strings of a text, in order
Strings(text) ==
    LET quoted == SelectSeq(text, LAMBDA t : t.kind = "string")
    IN [k \in 1..Len(quoted) |-> quoted[k].text]

\* JSON.parse: the array a text denotes, or a throw when it denotes none
JSONparse(text) ==
    IF JSONstringify(Strings(text)) = text
    THEN [threw |-> FALSE, value |-> Strings(text)]
    ELSE [threw |-> TRUE, value |-> <<>>]

\* The initialiser of dismissedIds: the stored list, [] when nothing is stored
\* or the stored text does not parse
StoredDismissedIds(saved) ==
    IF saved = NoItem THEN <<>>
    ELSE IF JSONparse(saved).threw THEN <<>>
    ELSE JSONparse(saved).value

\* The first occurrence of each element of a list, in order: [...new Set(list)]
RECURSIVE SetOrder(_)
SetOrder(list) ==
    IF Len(list) = 0 THEN <<>>
    ELSE LET front == SetOrder(SubSeq(list, 1, Len(list) - 1))
             x == list[Len(list)]
         IN IF x \in Elements(front) THEN front ELSE Append(front, x)

\* The item the page makes of an order
Item(order) ==
    [id |-> IF order._id # "" THEN order._id ELSE order.orderId,
     orderId |-> IF order.orderId # "" THEN order.orderId ELSE "N/A",
     timeValue |-> IF order.updatedAt # 0 THEN order.updatedAt ELSE order.createdAt]

\* A list sorted by falling timeValue, equal values keeping their order
RECURSIVE SortNewestFirst(_)
SortNewestFirst(items) ==
    IF Len(items) = 0 THEN <<>>
    ELSE LET front == SortNewestFirst(SubSeq(items, 1, Len(items) - 1))
             x == items[Len(items)]
             ahead == Cardinality({k \in 1..Len(front) : front[k].timeValue >= x.timeValue})
         IN SubSeq(front, 1, ahead) \o <<x>> \o SubSeq(front, ahead + 1, Len(front))

\* The filter of the notifications list, without the test of dismissedIds
KeepsDismissed(item, dismissedIds) == item.id # ""

\* The filter of the notifications list
Kept(item, dismissedIds) == item.id # "" /\ item.id \notin Elements(dismissedIds)

\* The notifications the page derives from its orders and dismissedIds
NotificationsOf(orderList, dismissedIds) ==
    LET items == [k \in 1..Len(orderList) |-> Item(orderList[k])]
    IN SortNewestFirst(SelectSeq(items, LAMBDA item : Kept(item, dismissedIds)))

notifications == NotificationsOf(notificationsPage.orders, notificationsPage.dismissedIds)

\* What the page shows: the list, or "Loading notifications..." while loading
Displayed == IF notificationsPage.loading THEN <<>> ELSE notifications

\* The ids of a list of items
IdsOf(items) == {items[k].id : k \in 1..Len(items)}

NoEvent == [name |-> "mount", id |-> ""]

\* The page after its first render and effects: dismissedIds from local
\* storage, fetchNotifications waiting for the server, dismissedIds stored
MountedPage(saved) ==
    [mounted |-> TRUE, loading |-> TRUE, orders |-> <<>>,
     dismissedIds |-> StoredDismissedIds(saved), pending |-> 1, event |-> NoEvent]

\* The effect of lines 874-876: it runs after a render that changed dismissedIds
StoreDismissed(dismissedIds) ==
    [localStorage EXCEPT ![DISMISSED_KEY] = JSONstringify(dismissedIds)]

\* What local storage can hold when the page is opened: nothing, a text that
\* does not parse, or a list the page stored on an earlier visit
EarlierStored ==
    {NoItem, <<Punct("[")>>, JSONstringify(<<>>), JSONstringify(<<"o2">>),
     JSONstringify(<<"ORD-3", "o1">>)}

InitNotifications ==
    /\ requests = <<>>
    /\ wallets = [r \in Restaurants |-> [exists |-> FALSE, totalBalance |-> 0,
                                         totalWithdrawn |-> 0, transactions |-> <<>>]]
    /\ now = 10
    /\ orders = OrdersOn(OrderBook, now)
    /\ last = NoCall
    /\ running = [p \in Processes |-> Idle]
    /\ couponsPage = Unmounted
    /\ \E saved \in EarlierStored :
          /\ notificationsPage = MountedPage(saved)
          /\ localStorage = [key \in {DISMISSED_KEY} |->
                                JSONstringify(StoredDismissedIds(saved))]

\* The page is opened again: a new Notifications component is mounted
mountNotifications ==
    /\ notificationsPage.mounted
    /\ notificationsPage' = MountedPage(localStorage[DISMISSED_KEY])
    /\ localStorage' = StoreDismissed(StoredDismissedIds(localStorage[DISMISSED_KEY]))
    /\ UNCHANGED <<backend, couponsPage>>

\* fetchNotifications up to its await: the refresh button
fetchNotifications ==
    /\ notificationsPage.mounted
    /\ notificationsPage.pending < MaxPending
    /\ notificationsPage' = [notificationsPage EXCEPT
                                !.loading = TRUE,
                                !.pending = @ + 1,
                                !.event = [name |-> "fetch", id |-> ""]]
    /\ UNCHANGED <<backend, localStorage, couponsPage>>

\* fetchNotifications after its await: the server's rows, [] when the call failed
fetchNotificationsAnswered ==
    /\ notificationsPage.mounted
    /\ notificationsPage.pending > 0
    /\ \E failed \in BOOLEAN, rows \in OrderRows :
          /\ failed => rows = <<>>
          /\ notificationsPage' = [notificationsPage EXCEPT
                                      !.orders = rows,
                                      !.loading = FALSE,
                                      !.pending = @ - 1,
                                      !.event = [name |-> "answer", id |-> ""]]
    /\ UNCHANGED <<backend, localStorage, couponsPage>>

\* The updater without its test of prev
RemoveNotificationAppends(prev, id) == Append(prev, id)

\* The updater of removeNotification
RemoveNotification(prev, id) == IF id \in Elements(prev) THEN prev ELSE Append(prev, id)

\* removeNotification(id), the render and the effect that follow it
removeNotification ==
    /\ notificationsPage.mounted
    /\ \E id \in NotificationIds :
          LET next == RemoveNotification(notificationsPage.dismissedIds, id)
          IN /\ notificationsPage' = [notificationsPage EXCEPT
                                         !.dismissedIds = next,
                                         !.event = [name |-> "remove", id |-> id]]
             /\ localStorage' = IF next = notificationsPage.dismissedIds
                                THEN localStorage ELSE StoreDismissed(next)
    /\ UNCHANGED <<backend, couponsPage>>

\* The updater of clearAll, for the notifications of the render it was called in
ClearAll(prev, items) ==
    LET ids == SelectSeq([k \in 1..Len(items) |-> items[k].id], LAMBDA id : id # "")
    IN SetOrder(prev \o ids)

\* clearAll(), the render and the effect that follow it
clearAll ==
    /\ notificationsPage.mounted
    /\ LET next == ClearAll(notificationsPage.dismissedIds, notifications)
       IN /\ notificationsPage' = [notificationsPage EXCEPT
                                      !.dismissedIds = next,
                                      !.event = [name |-> "clearAll", id |-> ""]]
          /\ localStorage' = StoreDismissed(next)
    /\ UNCHANGED <<backend, couponsPage>>

NextNotifications ==
    \/ mountNotifications
    \/ fetchNotifications
    \/ fetchNotificationsAnswered
    \/ removeNotification
    \/ clearAll

SpecNotifications == InitNotifications /\ [][NextNotifications]_vars

\* C33 - an id in dismissedIds stays in it and is the id of no notification
\* after any step of the page (a refresh, its answer, a dismissal, a clearAll,
\* a new mount), and the text in local storage parses to dismissedIds
C33_DismissedStaysHidden ==
    [][/\ \A id \in Elements(notificationsPage.dismissedIds) :
             /\ id \in Elements(notificationsPage'.dismissedIds)
             /\ id \notin IdsOf(notifications')
       /\ IdsOf(notifications') \cap Elements(notificationsPage'.dismissedIds) = {}
       /\ JSONparse(localStorage'[DISMISSED_KEY])
             = [threw |-> FALSE, value |-> notificationsPage'.dismissedIds]]_vars

\* o1 and then ORD-3 were dismissed on the page, the server has answered a
\* refresh with both among its rows, and the page shows the one that is left
C33_Witness ==
    /\ notificationsPage.mounted
    /\ notificationsPage.event.name = "answer"
    /\ ~notificationsPage.loading
    /\ notificationsPage.dismissedIds = <<"o1", "ORD-3">>
    /\ notificationsPage.orders = <<ServerOrders.b, ServerOrders.c, ServerOrders.a>>
    /\ IdsOf(Displayed) = {"o2"}
    /\ localStorage[DISMISSED_KEY] = JSONstringify(notificationsPage.dismissedIds)

\* A list in which no element occurs twice
NoDuplicates(list) == \A j, k \in 1..Len(list) : list[j] = list[k] => j = k

\* C34 - a step of the page keeps dismissedIds free of duplicates and keeps
\* every id it held, in place; removeNotification of an id that is dismissed
\* leaves dismissedIds as it is, and after clearAll there is no notification
C34_DismissedGrowsWithoutDuplicates ==
    [][LET before == notificationsPage.dismissedIds
           after == notificationsPage'.dismissedIds
           event == notificationsPage'.event
       IN /\ NoDuplicates(before) => NoDuplicates(after)
          /\ Len(after) >= Len(before)
          /\ SubSeq(after, 1, Len(before)) = before
          /\ (event.name = "remove" /\ event.id \in Elements(before)) => after = before
          /\ event.name = "clearAll" => notifications' = <<>> /\ Displayed' = <<>>]_vars

\* removeNotification was called for o1, which was dismissed before another
\* id, while the page holds two orders with o1 as their id
C34_Witness ==
    /\ notificationsPage.mounted
    /\ notificationsPage.event = [name |-> "remove", id |-> "o1"]
    /\ Len(notificationsPage.dismissedIds) >= 2
    /\ notificationsPage.dismissedIds[1] = "o1"
    /\ notificationsPage.orders = <<ServerOrders.a, ServerOrders.a>>
    /\ notifications = <<>>

----------------------------------------------------------------------------
(* The create-coupon form of the Coupons page of Coupons.jsx *)

\* A text is a list of characters; " " is white space
RECURSIVE TrimStart(_)
TrimStart(text) ==
    IF Len(text) > 0 /\ text[1] = " " THEN TrimStart(Tail(text)) ELSE text

RECURSIVE TrimEnd(_)
TrimEnd(text) ==
    IF Len(text) > 0 /\ text[Len(text)] = " "
    THEN TrimEnd(SubSeq(text, 1, Len(text) - 1)) ELSE text

\* String.prototype.trim
Trim(text) == TrimEnd(TrimStart(text))

\* The coupon codes typed into the form
CouponCodes == {<<>>, <<" ">>, <<"N", "E", "W">>, <<" ", "N", "E", "W", " ">>}

\* The texts the discount field hands over; a browser without number fields
\* hands over whatever was typed
DiscountTexts == {"", "0", "-5", "20", " 7 ", "abc", "1e400"}

\* A JavaScript number: finite with a value, NaN, or an infinity with its sign
Finite(n) == [finite |-> TRUE, nan |-> FALSE, val |-> n]
NotANumber == [finite |-> FALSE, nan |-> TRUE, val |-> 0]
Infinity == [finite |-> FALSE, nan |-> FALSE, val |-> 1]

\* Number(text): an empty or blank text is 0, white space around a number is
\* skipped, a text that is no number is NaN, 1e400 is beyond the largest double
NumberOf(text) ==
    CASE text = "" -> Finite(0)
      [] text = "0" -> Finite(0)
      [] text = "-5" -> Finite(0 - 5)
      [] text = "20" -> Finite(20)
      [] text = " 7 " -> Finite(7)
      [] text = "1e400" -> Infinity
      [] OTHER -> NotANumber

\* The test without Number.isFinite and with zero let through
DiscountRejectedBelowZero(parsed) == parsed.val < 0

\* !Number.isFinite(parsedDiscountValue) || parsedDiscountValue <= 0
DiscountRejected(parsed) ==
    \/ ~parsed.finite
    \/ ~parsed.nan /\ parsed.val <= 0

\* The form resetForm leaves, which is also the form of the first render
EmptyForm ==
    [couponCode |-> <<>>, discountType |-> "percentage", discountValue |-> "",
     customerScope |-> "all", restaurantScope |-> "all", restaurantId |-> "",
     endDate |-> ""]

\* The values handleFormChange is called with, field by field
FieldValues ==
    [couponCode |-> CouponCodes,
     discountType |-> {"percentage", "flat"},
     discountValue |-> DiscountTexts,
     customerScope |-> {"all"},
     restaurantScope |-> {"all", "selected"},
     restaurantId |-> {"", "rest1"},
     endDate |-> {""}]

\* The body of the createAdminOffer call
OfferOf(formData) ==
    [couponCode |-> Trim(formData.couponCode),
     discountType |-> formData.discountType,
     discountValue |-> NumberOf(formData.discountValue),
     customerScope |-> formData.customerScope,
     restaurantScope |-> formData.restaurantScope,
     restaurantId |-> IF formData.restaurantScope = "selected"
                      THEN formData.restaurantId ELSE "",
     endDate |-> formData.endDate]

NoOffer == [couponCode |-> <<>>]

\* The messages a failed createAdminOffer ends with: the server's, or the
\* fallback when the error carries none
CreateErrors == {"Coupon code already exists", "Failed to create coupon"}

\* The Coupons page after its first render; awaiting names the call a running
\* handleCreateCoupon waits for, sent the body of the call it has made
InitCoupons ==
    /\ requests = <<>>
    /\ wallets = [r \in Restaurants |-> [exists |-> FALSE, totalBalance |-> 0,
                                         totalWithdrawn |-> 0, transactions |-> <<>>]]
    /\ now = 10
    /\ orders = OrdersOn(OrderBook, now)
    /\ last = NoCall
    /\ running = [p \in Processes |-> Idle]
    /\ notificationsPage = Unmounted
    /\ localStorage = [key \in {DISMISSED_KEY} |-> NoItem]
    /\ couponsPage = [mounted |-> TRUE, formData |-> EmptyForm, isSubmitting |-> FALSE,
                      submitError |-> "", submitSuccess |-> "",
                      awaiting |-> "none", sent |-> NoOffer, event |-> "mount"]

\* handleFormChange(field, value)
handleFormChange ==
    /\ couponsPage.mounted
    /\ \E field \in DOMAIN FieldValues : \E value \in FieldValues[field] :
          couponsPage' = [couponsPage EXCEPT
                             !.formData = [@ EXCEPT ![field] = value],
                             !.submitError = "",
                             !.submitSuccess = "",
                             !.event = "change"]
    /\ UNCHANGED <<backend, notificationsPage, localStorage>>

\* handleCreateCoupon up to its first await, or to the return of a failed
\* test; the submit button is disabled while isSubmitting (line 271)
handleCreateCoupon ==
    /\ couponsPage.mounted
    /\ ~couponsPage.isSubmitting
    /\ LET formData == couponsPage.formData
           parsedDiscountValue == NumberOf(formData.discountValue)
           cleared == [couponsPage EXCEPT !.submitError = "", !.submitSuccess = "",
                                          !.sent = NoOffer, !.event = "submit"]
       IN couponsPage' =
             IF Trim(formData.couponCode) = <<>>
             THEN [cleared EXCEPT !.submitError = "Coupon code is required"]
             ELSE IF DiscountRejected(parsedDiscountValue)
             THEN [cleared EXCEPT !.submitError = "Discount value must be greater than 0"]
             ELSE IF formData.restaurantScope = "selected" /\ formData.restaurantId = ""
             THEN [cleared EXCEPT !.submitError = "Please select a restaurant"]
             ELSE [cleared EXCEPT !.isSubmitting = TRUE,
                                  !.awaiting = "createAdminOffer",
                                  !.sent = OfferOf(formData)]
    /\ UNCHANGED <<backend, notificationsPage, localStorage>>

\* handleCreateCoupon after createAdminOffer: the success message, resetForm
\* and the call of fetchOffers, or the catch and the finally
createAdminOfferAnswered ==
    /\ couponsPage.mounted
    /\ couponsPage.awaiting = "createAdminOffer"
    /\ \/ couponsPage' = [couponsPage EXCEPT
                             !.submitSuccess = "Coupon created successfully",
                             !.formData = EmptyForm,
                             !.awaiting = "fetchOffers",
                             !.event = "created"]
       \/ \E message \in CreateErrors :
             couponsPage' = [couponsPage EXCEPT
                                !.submitError = message,
                                !.isSubmitting = FALSE,
                                !.awaiting = "none",
                                !.event = "failed"]
    /\ UNCHANGED <<backend, notificationsPage, localStorage>>

\* handleCreateCoupon after fetchOffers, which catches its own errors: the finally
fetchOffersAnswered ==
    /\ couponsPage.mounted
    /\ couponsPage.awaiting = "fetchOffers"
    /\ couponsPage' = [couponsPage EXCEPT
                          !.isSubmitting = FALSE,
                          !.awaiting = "none",
                          !.event = "listed"]
    /\ UNCHANGED <<backend, notificationsPage, localStorage>>

NextCoupons ==
    \/ handleFormChange
    \/ handleCreateCoupon
    \/ createAdminOfferAnswered
    \/ fetchOffersAnswered

SpecCoupons == InitCoupons /\ [][NextCoupons]_vars

\* C35 - a submit calls createAdminOffer exactly when the trimmed code is not
\* empty, the discount is a finite number above 0 and a restaurant is chosen
\* if the scope is 'selected', and otherwise sets submitError and calls
\* nothing; when no handleCreateCoupon is running isSubmitting is false; and
\* submitError and submitSuccess are never both set
C35_CreateOnlyWhenFormValid ==
    [][LET form == couponsPage.formData
           value == NumberOf(form.discountValue)
           accepted == /\ Trim(form.couponCode) # <<>>
                       /\ value.finite /\ value.val > 0
                       /\ form.restaurantScope = "selected" => form.restaurantId # ""
           after == couponsPage'
       IN /\ after.event = "submit"
             => /\ accepted <=> after.awaiting = "createAdminOffer"
                /\ accepted => /\ after.sent.couponCode = Trim(form.couponCode)
                               /\ after.submitError = ""
                /\ ~accepted => /\ after.submitError # ""
                                /\ after.sent = NoOffer
                                /\ after.awaiting = "none"
                                /\ ~after.isSubmitting
          /\ after.awaiting # "createAdminOffer" => after.sent = couponsPage.sent
                                                    \/ after.event = "submit"
          /\ after.awaiting = "none" => ~after.isSubmitting
          /\ ~(after.submitError # "" /\ after.submitSuccess # "")]_vars

\* a submit with a code, the scope 'selected' and a restaurant was refused for
\* its discount text, which is no finite number
C35_Witness ==
    /\ couponsPage.mounted
    /\ couponsPage.event = "submit"
    /\ couponsPage.formData.couponCode = <<" ", "N", "E", "W", " ">>
    /\ couponsPage.formData.discountValue = "1e400"
    /\ couponsPage.formData.restaurantScope = "selected"
    /\ couponsPage.formData.restaurantId = "rest1"
    /\ couponsPage.submitError = "Discount value must be greater than 0"
    /\ couponsPage.awaiting = "none"
    /\ ~couponsPage.isSubmitting

====
